---- MODULE Spec2Model ----
(***************************************************************************)
(* Verification model of the LAI AML interpreter bundled with aero:        *)
(*   - the word-based mutex and event of core/exec_impl.h,                 *)
(*   - the reference-counted object model of core/object.c,                *)
(*   - the stack machine of core/exec.c.                                   *)
(* Each component has its own specification; the variables of the other    *)
(* components stay at their initial value under it.                        *)
(***************************************************************************)
EXTENDS Integers, Sequences, FiniteSets, TLC

VARIABLES mtx, evt, obj, lai, cnv, fld, hst, stk, opr

vars == <<mtx, evt, obj, lai, cnv, fld, hst, stk, opr>>

(***************************************************************************)
(* Bounds.                                                                 *)
(***************************************************************************)
NThreads == 2
MaxLockCalls == 3
MaxSignals == 3
MaxWaitCalls == 3
\* the host-wait call counter of a thread saturates here
MaxHostWaits == 2
\* payloads the allocator can hand out, variable slots, payload sizes
MaxPayloads == 4
NSlots == 3
MaxSize == 2
MaxObjSteps == 5

Threads == 1..NThreads

\* the threads that exist; those beyond NThreads take part only in the
\* specifications of contention among three threads
NContenders == 3
Contenders == 1..NContenders

Min(a, b) == IF a < b THEN a ELSE b

\* The deadline is handed to the host unchanged; the host tells three kinds
\* apart: 0 (do not wait), a finite deadline, and the wait-forever sentinel.
Deadlines == {"nowait", "finite", "forever"}

(***************************************************************************)
(* core/exec_impl.h: sync word layout.                                     *)
(***************************************************************************)
LAI_MUTEX_BITS == 3
LAI_MUTEX_LOCKED == 1
LAI_MUTEX_CONTENDED == 2
LAI_EVENT_COUNT == 2147483647

\* The event word is kept as its two fields: bit 31 (LAI_EVENT_WAITERS) and
\* the low 31 bits (LAI_EVENT_COUNT).
EventWord(w, c) == [waiters |-> w, count |-> c]
LAI_EVENT_WAITERS == EventWord(TRUE, 0)

\* v & LAI_MUTEX_LOCKED, v & LAI_MUTEX_CONTENDED, v & ~LAI_MUTEX_BITS
MutexLocked(v) == (v % 2) = 1
MutexContended(v) == ((v \div 2) % 2) = 1
MutexStray(v) == v > LAI_MUTEX_BITS

\* v & LAI_EVENT_COUNT, v & LAI_EVENT_WAITERS
EventCount(v) == v.count
EventWaiters(v) == v.waiters
\* the word seen as the unsigned integer the host compares against
EventWordIs(v, n) == ~v.waiters /\ v.count = n

(***************************************************************************)
(* Host hooks laihost_sync_wait(sync, val, deadline) and                   *)
(* laihost_sync_wake(sync).  The wait blocks only while the word still     *)
(* holds the expected value; it returns 0 when the word differs or when    *)
(* the thread is woken, and nonzero when the deadline passes.              *)
(***************************************************************************)
HostWaitOutcome(word, expected, deadline) ==
    IF word # expected THEN "return0"
    ELSE IF deadline = "nowait" THEN "timeout"
    ELSE "block"

\* the pc a thread gets when the host wakes it: the wait returns 0 and the
\* caller's loop runs again
HostWakeOne(pcs, blockedAt, resumeAt, u) ==
    IF pcs[u] = blockedAt THEN [pcs EXCEPT ![u] = resumeAt] ELSE pcs

\* what a step of one component leaves alone
OnlyMutex == UNCHANGED <<evt, obj, lai, cnv, fld, hst, stk, opr>>
OnlyEvent == UNCHANGED <<mtx, obj, lai, cnv, fld, hst, stk, opr>>
OnlyObject == UNCHANGED <<mtx, evt, lai, cnv, fld, hst, stk, opr>>
OnlyExec == UNCHANGED <<mtx, evt, obj, cnv, fld, hst, stk, opr>>
OnlyConv == UNCHANGED <<mtx, evt, obj, lai, fld, hst, stk, opr>>
OnlyField == UNCHANGED <<mtx, evt, obj, lai, cnv, hst, stk, opr>>
OnlyHost == UNCHANGED <<mtx, evt, obj, lai, cnv, fld, stk, opr>>
OnlyStack == UNCHANGED <<mtx, evt, obj, lai, cnv, fld, hst, opr>>
OnlyOperator == UNCHANGED <<mtx, evt, obj, lai, cnv, fld, hst, stk>>

(***************************************************************************)
(* Mutex: lai_mutex_lock / lai_mutex_unlock.                               *)
(*   pc:  idle | loop | wait | blocked | held | wake                       *)
(***************************************************************************)
MtxInit ==
    [ val      |-> 0,
      pc       |-> [t \in Contenders |-> "idle"],
      v        |-> [t \in Contenders |-> 0],
      deadline |-> [t \in Contenders |-> "forever"],
      res      |-> [t \in Contenders |-> "none"],
      panic    |-> FALSE,
      \* history
      calls    |-> 0,
      callno   |-> [t \in Contenders |-> 0],
      hwaits   |-> [t \in Contenders |-> 0],
      unlocks  |-> 0,
      acqs     |-> 0,
      acqno    |-> [t \in Contenders |-> 0],
      okAt     |-> [t \in Contenders |-> 0] ]

\* lai_mutex_lock: entry, the initial atomic load of the word
MutexLockCall(t, d) ==
    /\ OnlyMutex
    /\ mtx.pc[t] = "idle"
    /\ ~mtx.panic
    /\ mtx.calls < MaxLockCalls
    /\ mtx' = [mtx EXCEPT !.pc[t] = "loop", !.v[t] = mtx.val,
                          !.deadline[t] = d, !.res[t] = "none",
                          !.calls = @ + 1, !.callno[t] = mtx.calls + 1,
                          !.hwaits[t] = 0]

\* faulty variant: the Locked bit is not tested before the acquiring CAS
MutexLockStepBarging(m, t) ==
    LET v == m.v[t] IN
    IF m.val = v
    THEN [m EXCEPT !.val = LAI_MUTEX_LOCKED, !.pc[t] = "held",
                   !.res[t] = "ok", !.okAt[t] = m.unlocks,
                   !.acqs = @ + 1, !.acqno[t] = m.acqs + 1]
    ELSE [m EXCEPT !.v[t] = m.val]

\* faulty variant: the acquiring compare-exchange is a plain store
MutexLockStepStore(m, t) ==
    LET v == m.v[t] IN
    IF MutexStray(v) THEN [m EXCEPT !.panic = TRUE]
    ELSE IF ~MutexLocked(v) THEN
        [m EXCEPT !.val = LAI_MUTEX_LOCKED, !.pc[t] = "held",
                  !.res[t] = "ok", !.okAt[t] = m.unlocks,
                  !.acqs = @ + 1, !.acqno[t] = m.acqs + 1]
    ELSE IF ~MutexContended(v) THEN
        IF m.val = v
        THEN [m EXCEPT !.val = LAI_MUTEX_LOCKED + LAI_MUTEX_CONTENDED,
                       !.pc[t] = "wait"]
        ELSE [m EXCEPT !.v[t] = m.val]
    ELSE [m EXCEPT !.pc[t] = "wait"]

\* one pass of the for(;;) body up to the host wait
MutexLockStep(m, t) ==
    LET v == m.v[t] IN
    IF MutexStray(v) THEN [m EXCEPT !.panic = TRUE]
    ELSE IF ~MutexLocked(v) THEN
        IF m.val = v
        THEN [m EXCEPT !.val = LAI_MUTEX_LOCKED, !.pc[t] = "held",
                       !.res[t] = "ok", !.okAt[t] = m.unlocks,
                       !.acqs = @ + 1, !.acqno[t] = m.acqs + 1]
        ELSE [m EXCEPT !.v[t] = m.val]
    ELSE IF ~MutexContended(v) THEN
        IF m.val = v
        THEN [m EXCEPT !.val = LAI_MUTEX_LOCKED + LAI_MUTEX_CONTENDED,
                       !.pc[t] = "wait"]
        ELSE [m EXCEPT !.v[t] = m.val]
    ELSE [m EXCEPT !.pc[t] = "wait"]

MutexLockLoop(t) ==
    /\ OnlyMutex
    /\ mtx.pc[t] = "loop"
    /\ ~mtx.panic
    /\ mtx' = MutexLockStep(mtx, t)

\* faulty variant: lock gives up as soon as the host wait returns
MutexHostWaitStepGiveUp(m, t) ==
    LET o == HostWaitOutcome(m.val, LAI_MUTEX_LOCKED + LAI_MUTEX_CONTENDED,
                             m.deadline[t])
        n == [m EXCEPT !.hwaits[t] = Min(@ + 1, MaxHostWaits)]
    IN  IF o \in {"return0", "timeout"} THEN [n EXCEPT !.pc[t] = "idle", !.res[t] = "timeout"]
        ELSE [n EXCEPT !.pc[t] = "blocked"]

\* the call of laihost_sync_wait(sync, LOCKED | CONTENDED, deadline)
MutexHostWaitStep(m, t) ==
    LET o == HostWaitOutcome(m.val, LAI_MUTEX_LOCKED + LAI_MUTEX_CONTENDED,
                             m.deadline[t])
        n == [m EXCEPT !.hwaits[t] = Min(@ + 1, MaxHostWaits)]
    IN  IF o = "return0" THEN [n EXCEPT !.pc[t] = "loop"]
        ELSE IF o = "timeout" THEN [n EXCEPT !.pc[t] = "idle", !.res[t] = "timeout"]
        ELSE [n EXCEPT !.pc[t] = "blocked"]

MutexHostWait(t) ==
    /\ OnlyMutex
    /\ mtx.pc[t] = "wait"
    /\ ~mtx.panic
    /\ mtx' = MutexHostWaitStep(mtx, t)

\* the deadline of a blocked wait passes: lai_mutex_lock returns 1
MutexHostTimeout(t) ==
    /\ OnlyMutex
    /\ mtx.pc[t] = "blocked"
    /\ mtx.deadline[t] = "finite"
    /\ mtx' = [mtx EXCEPT !.pc[t] = "idle", !.res[t] = "timeout"]

\* Acquire: the result is 1 when lai_mutex_lock returns nonzero, else 0
AcquireResult(res) == IF res # "ok" THEN 1 ELSE 0

\* lai_mutex_unlock up to the wake
MutexUnlockStep(m, t) ==
    LET v == m.val IN
    IF MutexStray(v) \/ ~MutexLocked(v) THEN [m EXCEPT !.val = 0, !.panic = TRUE]
    ELSE [m EXCEPT !.val = 0, !.v[t] = v, !.unlocks = @ + 1,
                   !.pc[t] = IF MutexContended(v) THEN "wake" ELSE "idle"]

MutexUnlock(t) ==
    /\ OnlyMutex
    /\ mtx.pc[t] = "held"
    /\ ~mtx.panic
    /\ mtx' = MutexUnlockStep(mtx, t)

\* laihost_sync_wake(sync): one blocked waiter, if there is one, resumes
MutexHostWake(t) ==
    /\ OnlyMutex
    /\ mtx.pc[t] = "wake"
    /\ \/ \E u \in Contenders :
            /\ mtx.pc[u] = "blocked"
            /\ mtx' = [mtx EXCEPT !.pc = [HostWakeOne(mtx.pc, "blocked", "loop", u)
                                            EXCEPT ![t] = "idle"]]
       \/ /\ \A u \in Contenders : mtx.pc[u] # "blocked"
          /\ mtx' = [mtx EXCEPT !.pc[t] = "idle"]

(***************************************************************************)
(* Event: lai_event_wait / lai_event_signal / lai_event_reset.             *)
(*   pc:  idle | wloop | wwait | wblocked | sloop | swake | rloop          *)
(***************************************************************************)
EvtInit ==
    [ val      |-> EventWord(FALSE, 0),
      pc       |-> [t \in Contenders |-> "idle"],
      v        |-> [t \in Contenders |-> EventWord(FALSE, 0)],
      deadline |-> [t \in Contenders |-> "forever"],
      res      |-> [t \in Contenders |-> "none"],
      panic    |-> FALSE,
      \* history
      signals  |-> 0,
      handoffs |-> 0,
      wakes    |-> 0,
      wcalls   |-> 0,
      wok      |-> 0,
      dropped  |-> 0,
      hwaits   |-> [t \in Contenders |-> 0],
      before   |-> [t \in Contenders |-> 0],
      after    |-> [t \in Contenders |-> 0],
      signalled |-> [t \in Contenders |-> FALSE] ]

EventWaitCall(t, d) ==
    /\ OnlyEvent
    /\ evt.pc[t] = "idle"
    /\ ~evt.panic
    /\ evt.wcalls < MaxWaitCalls
    /\ evt' = [evt EXCEPT !.pc[t] = "wloop", !.v[t] = evt.val,
                          !.deadline[t] = d, !.res[t] = "none",
                          !.wcalls = @ + 1, !.hwaits[t] = 0,
                          !.signalled[t] = FALSE]

\* faulty variant: a positive count is taken without being decremented
EventWaitStepKeep(e, t) ==
    LET v == e.v[t] IN
    IF EventCount(v) # 0 THEN
        IF e.val = v
        THEN [e EXCEPT !.pc[t] = "idle", !.res[t] = "ok", !.wok = @ + 1,
                       !.before[t] = v.count, !.after[t] = v.count]
        ELSE [e EXCEPT !.v[t] = e.val]
    ELSE IF ~EventWaiters(v) THEN
        IF e.val = v
        THEN [e EXCEPT !.val = LAI_EVENT_WAITERS, !.pc[t] = "wwait"]
        ELSE [e EXCEPT !.v[t] = e.val]
    ELSE [e EXCEPT !.pc[t] = "wwait"]

\* one pass of the for(;;) body of lai_event_wait up to the host wait
EventWaitStep(e, t) ==
    LET v == e.v[t] IN
    IF EventCount(v) # 0 THEN
        IF EventWaiters(v) THEN [e EXCEPT !.panic = TRUE]
        ELSE IF e.val = v
        THEN [e EXCEPT !.val = EventWord(FALSE, v.count - 1), !.pc[t] = "idle",
                       !.res[t] = "ok", !.wok = @ + 1,
                       !.before[t] = v.count, !.after[t] = v.count - 1]
        ELSE [e EXCEPT !.v[t] = e.val]
    ELSE IF ~EventWaiters(v) THEN
        IF e.val = v
        THEN [e EXCEPT !.val = LAI_EVENT_WAITERS, !.pc[t] = "wwait"]
        ELSE [e EXCEPT !.v[t] = e.val]
    ELSE [e EXCEPT !.pc[t] = "wwait"]

EventWaitLoop(t) ==
    /\ OnlyEvent
    /\ evt.pc[t] = "wloop"
    /\ ~evt.panic
    /\ evt' = EventWaitStep(evt, t)

\* laihost_sync_wait(sync, LAI_MUTEX_LOCKED | LAI_MUTEX_CONTENDED, deadline)
EventHostWaitStep(e, t) ==
    LET expected == LAI_MUTEX_LOCKED + LAI_MUTEX_CONTENDED
        o == HostWaitOutcome(EventWordIs(e.val, expected), TRUE, e.deadline[t])
        n == [e EXCEPT !.hwaits[t] = Min(@ + 1, MaxHostWaits)]
    IN  IF o = "return0" THEN [n EXCEPT !.pc[t] = "wloop"]
        ELSE IF o = "timeout" THEN [n EXCEPT !.pc[t] = "idle", !.res[t] = "timeout"]
        ELSE [n EXCEPT !.pc[t] = "wblocked"]

EventHostWait(t) ==
    /\ OnlyEvent
    /\ evt.pc[t] = "wwait"
    /\ ~evt.panic
    /\ evt' = EventHostWaitStep(evt, t)

EventHostTimeout(t) ==
    /\ OnlyEvent
    /\ evt.pc[t] = "wblocked"
    /\ evt.deadline[t] = "finite"
    /\ evt' = [evt EXCEPT !.pc[t] = "idle", !.res[t] = "timeout"]

EventSignalCall(t) ==
    /\ OnlyEvent
    /\ evt.pc[t] = "idle"
    /\ ~evt.panic
    /\ evt.signals + Cardinality({u \in Contenders : evt.pc[u] \in {"sloop", "swake"}})
          < MaxSignals
    /\ evt' = [evt EXCEPT !.pc[t] = "sloop", !.v[t] = evt.val]

\* faulty variant: the hand-off to a waiter leaves the Waiters bit set
EventSignalStepKeepWaiters(e, t) ==
    LET v == e.v[t] IN
    IF ~EventWaiters(v) THEN
        IF v.count = LAI_EVENT_COUNT THEN [e EXCEPT !.panic = TRUE]
        ELSE IF e.val = v
        THEN [e EXCEPT !.val = EventWord(FALSE, v.count + 1), !.pc[t] = "idle",
                       !.signals = @ + 1]
        ELSE [e EXCEPT !.v[t] = e.val]
    ELSE
        IF EventCount(v) # 0 THEN [e EXCEPT !.panic = TRUE]
        ELSE IF e.val = v
        THEN [e EXCEPT !.val = EventWord(TRUE, 1), !.pc[t] = "swake",
                       !.signals = @ + 1,
                       !.handoffs = @ + 1]
        ELSE [e EXCEPT !.v[t] = e.val]

\* one pass of the for(;;) body of lai_event_signal up to the wake
EventSignalStep(e, t) ==
    LET v == e.v[t] IN
    IF ~EventWaiters(v) THEN
        IF v.count = LAI_EVENT_COUNT THEN [e EXCEPT !.panic = TRUE]
        ELSE IF e.val = v
        THEN [e EXCEPT !.val = EventWord(FALSE, v.count + 1), !.pc[t] = "idle",
                       !.signals = @ + 1]
        ELSE [e EXCEPT !.v[t] = e.val]
    ELSE
        IF EventCount(v) # 0 THEN [e EXCEPT !.panic = TRUE]
        ELSE IF e.val = v
        THEN [e EXCEPT !.val = EventWord(FALSE, 1), !.pc[t] = "swake",
                       !.signals = @ + 1,
                       !.handoffs = @ + 1,
                       !.signalled = [u \in Contenders |->
                                        e.signalled[u] \/ e.pc[u] \in {"wwait", "wblocked"}]]
        ELSE [e EXCEPT !.v[t] = e.val]

EventSignalLoop(t) ==
    /\ OnlyEvent
    /\ evt.pc[t] = "sloop"
    /\ ~evt.panic
    /\ evt' = EventSignalStep(evt, t)

EventHostWake(t) ==
    /\ OnlyEvent
    /\ evt.pc[t] = "swake"
    /\ \/ \E u \in Contenders :
            /\ evt.pc[u] = "wblocked"
            /\ evt' = [evt EXCEPT !.pc = [HostWakeOne(evt.pc, "wblocked", "wloop", u)
                                            EXCEPT ![t] = "idle"],
                                  !.wakes = @ + 1]
       \/ /\ \A u \in Contenders : evt.pc[u] # "wblocked"
          /\ evt' = [evt EXCEPT !.pc[t] = "idle", !.wakes = @ + 1]

EventResetCall(t) ==
    /\ OnlyEvent
    /\ evt.pc[t] = "idle"
    /\ ~evt.panic
    /\ evt' = [evt EXCEPT !.pc[t] = "rloop", !.v[t] = evt.val]

\* one pass of the for(;;) body of lai_event_reset
EventResetStep(e, t) ==
    LET v == e.v[t] IN
    IF ~EventWaiters(v) /\ EventCount(v) # 0 THEN
        IF e.val = v
        THEN [e EXCEPT !.val = EventWord(FALSE, 0), !.pc[t] = "idle",
                       \* history; it saturates like the count
                       !.dropped = IF @ > LAI_EVENT_COUNT - v.count THEN LAI_EVENT_COUNT
                                   ELSE @ + v.count]
        ELSE [e EXCEPT !.v[t] = e.val]
    ELSE IF EventWaiters(v) /\ EventCount(v) # 0 THEN [e EXCEPT !.panic = TRUE]
    ELSE [e EXCEPT !.pc[t] = "idle"]

EventResetLoop(t) ==
    /\ OnlyEvent
    /\ evt.pc[t] = "rloop"
    /\ ~evt.panic
    /\ evt' = EventResetStep(evt, t)


(***************************************************************************)
(* Integers are 64 bits wide, kept as four 16-bit limbs, least significant *)
(* first.                                                                  *)
(***************************************************************************)
Limb == 65536

U64(n) == <<n % Limb, (n \div Limb) % Limb, 0, 0>>
U64Zero == U64(0)
U64Ones == <<Limb - 1, Limb - 1, Limb - 1, Limb - 1>>

\* a + b + c modulo 2^64, c the carry into the lowest limb
U64AddC(a, b, c) ==
    LET s1 == a[1] + b[1] + c
        s2 == a[2] + b[2] + s1 \div Limb
        s3 == a[3] + b[3] + s2 \div Limb
        s4 == a[4] + b[4] + s3 \div Limb
    IN  <<s1 % Limb, s2 % Limb, s3 % Limb, s4 % Limb>>

U64Not(a) == [i \in 1..4 |-> Limb - 1 - a[i]]
U64Add(a, b) == U64AddC(a, b, 0)
U64Sub(a, b) == U64AddC(a, U64Not(b), 1)

(***************************************************************************)
(* Object model: lai_variable_t and the reference-counted payloads of      *)
(* strings, buffers and packages (core/object.c, core/variable.c).         *)
(* A heap maps payload ids to [kind, rc, bytes, elems]; a variable is      *)
(* [type, integer, ptr].                                                   *)
(***************************************************************************)
PayloadIds == 1..MaxPayloads
Slots == 1..NSlots
HeapTypes == {"string", "buffer", "package"}

NoVar == [type |-> "none", integer |-> 0, ptr |-> 0]
IntVar(n) == [type |-> "integer", integer |-> n, ptr |-> 0]
PtrVar(t, id) == [type |-> t, integer |-> 0, ptr |-> id]
FreePayload == [kind |-> "free", rc |-> 0, bytes |-> <<>>, elems |-> <<>>]
EmptyHeap == [id \in PayloadIds |-> FreePayload]

Zeros(n) == [i \in 1..n |-> 0]
NoVars(n) == [i \in 1..n |-> NoVar]

\* laihost_malloc of a payload head: the lowest free id, 0 when memory is out
Alloc(h) ==
    IF \E id \in PayloadIds : h[id].kind = "free"
    THEN CHOOSE id \in PayloadIds :
            h[id].kind = "free" /\ \A j \in PayloadIds : h[j].kind = "free" => id <= j
    ELSE 0

\* lai_strlen: the bytes before the first NUL
RECURSIVE lai_strlen(_)
lai_strlen(b) ==
    IF b = <<>> \/ Head(b) = 0 THEN 0 ELSE 1 + lai_strlen(Tail(b))

Prefix(b, n) == [i \in 1..n |-> b[i]]

\* memcpy(dst, src, n) into a content of fixed length
Memcpy(dst, src, n) == [i \in 1..Len(dst) |-> IF i <= n THEN src[i] ELSE dst[i]]

\* The results of the operations below are [h, v, err]: the heap, the
\* variable written through the first pointer argument, and an error tag.
Res(h, v, err) == [h |-> h, v |-> v, err |-> err]

lai_create_string(h, length) ==
    LET id == Alloc(h) IN
    IF id = 0 THEN Res(h, [NoVar EXCEPT !.type = "string"], "LAI_ERROR_OUT_OF_MEMORY")
    ELSE Res([h EXCEPT ![id] = [kind |-> "string", rc |-> 1,
                                bytes |-> Zeros(length + 1), elems |-> <<>>]],
             PtrVar("string", id), "LAI_ERROR_NONE")

lai_create_c_string(h, str) ==
    LET n == lai_strlen(str)
        r == lai_create_string(h, n)
    IN  IF r.err # "LAI_ERROR_NONE" THEN r
        ELSE Res([r.h EXCEPT ![r.v.ptr].bytes = Memcpy(@, str, n)], r.v, r.err)

lai_create_buffer(h, size) ==
    LET id == Alloc(h) IN
    IF id = 0 THEN Res(h, [NoVar EXCEPT !.type = "buffer"], "LAI_ERROR_OUT_OF_MEMORY")
    ELSE Res([h EXCEPT ![id] = [kind |-> "buffer", rc |-> 1,
                                bytes |-> Zeros(size), elems |-> <<>>]],
             PtrVar("buffer", id), "LAI_ERROR_NONE")

lai_create_pkg(h, n) ==
    LET id == Alloc(h) IN
    IF id = 0 THEN Res(h, [NoVar EXCEPT !.type = "package"], "LAI_ERROR_OUT_OF_MEMORY")
    ELSE Res([h EXCEPT ![id] = [kind |-> "package", rc |-> 1,
                                bytes |-> <<>>, elems |-> NoVars(n)]],
             PtrVar("package", id), "LAI_ERROR_NONE")

\* lai_rc_ref / lai_rc_unref on the payload a variable points to
lai_rc_ref(h, id) == [h EXCEPT ![id].rc = @ + 1]
lai_rc_unref_keep(h, id) == h
lai_rc_unref(h, id) == [h EXCEPT ![id].rc = @ - 1]

\* lai_var_finalize: drop the variable's reference; the payload whose count
\* reaches zero is freed, a package after finalizing its elements
RECURSIVE lai_var_finalize(_, _)
RECURSIVE FinalizeElems(_, _)
FinalizeElems(h, es) ==
    IF es = <<>> THEN h ELSE FinalizeElems(lai_var_finalize(h, Head(es)), Tail(es))

lai_var_finalize(h, v) ==
    IF v.type \notin HeapTypes THEN h
    ELSE LET u == lai_rc_unref(h, v.ptr) IN
         IF u[v.ptr].rc # 0 THEN u
         ELSE [FinalizeElems(u, u[v.ptr].elems) EXCEPT ![v.ptr] = FreePayload]

\* lai_var_move(dest, src): finalize dest, take over src's reference
lai_var_move(h, dest, src) == Res(lai_var_finalize(h, dest), src, "LAI_ERROR_NONE")

\* lai_var_assign(dest, src): a shallow copy that takes a new reference
lai_var_assign(h, dest, src) ==
    lai_var_move(IF src.type \in HeapTypes THEN lai_rc_ref(h, src.ptr) ELSE h, dest, src)

lai_exec_string_length(h, v) == lai_strlen(h[v.ptr].bytes)
lai_exec_buffer_size(h, v) == Len(h[v.ptr].bytes)
lai_exec_pkg_size(h, v) == Len(h[v.ptr].elems)

\* lai_exec_pkg_store(in, pkg, i): assign into element i (0-based)
lai_exec_pkg_store(h, in, pkg, i) ==
    LET r == lai_var_assign(h, h[pkg.ptr].elems[i + 1], in)
    IN  [r.h EXCEPT ![pkg.ptr].elems[i + 1] = r.v]

lai_clone_buffer(h, source) ==
    LET size == lai_exec_buffer_size(h, source)
        r == lai_create_buffer(h, size)
    IN  IF r.err # "LAI_ERROR_NONE" THEN Res(r.h, r.v, "panic")
        ELSE Res([r.h EXCEPT ![r.v.ptr].bytes = Memcpy(@, h[source.ptr].bytes, size)],
                 r.v, r.err)

lai_clone_string(h, source) ==
    LET n == lai_exec_string_length(h, source)
        r == lai_create_string(h, n)
    IN  IF r.err # "LAI_ERROR_NONE" THEN Res(r.h, r.v, "panic")
        ELSE Res([r.h EXCEPT ![r.v.ptr].bytes = Memcpy(@, h[source.ptr].bytes, n)],
                 r.v, r.err)

\* faulty variant of lai_obj_clone: every type is copied shallowly
lai_obj_clone_shallow(h, dest, source) == lai_var_assign(h, dest, source)

RECURSIVE lai_obj_clone(_, _, _)
RECURSIVE lai_clone_package(_, _)
RECURSIVE CloneElems(_, _, _, _)

\* the element loop of lai_clone_package, from 0-based index i on
CloneElems(h, id, src, i) ==
    IF i >= Len(h[src.ptr].elems) THEN Res(h, PtrVar("package", id), "LAI_ERROR_NONE")
    ELSE LET r == lai_obj_clone(h, h[id].elems[i + 1], h[src.ptr].elems[i + 1]) IN
         IF r.err = "panic" THEN Res(r.h, PtrVar("package", id), "panic")
         ELSE CloneElems([r.h EXCEPT ![id].elems[i + 1] = r.v], id, src, i + 1)

lai_clone_package(h, src) ==
    LET n == lai_exec_pkg_size(h, src)
        r == lai_create_pkg(h, n)
    IN  IF r.err # "LAI_ERROR_NONE" THEN Res(r.h, r.v, "panic")
        ELSE CloneElems(r.h, r.v.ptr, src, 0)

\* lai_obj_clone(dest, source): clone into a temporary, swap it into dest and
\* finalize what dest held; other types are assigned shallowly
lai_obj_clone(h, dest, source) ==
    LET t == CASE source.type = "string"  -> lai_clone_string(h, source)
               [] source.type = "buffer"  -> lai_clone_buffer(h, source)
               [] source.type = "package" -> lai_clone_package(h, source)
               [] OTHER -> Res(h, NoVar, "LAI_ERROR_NONE")
    IN  IF t.err = "panic" THEN Res(t.h, dest, "panic")
        ELSE IF t.v.type # "none"
        THEN Res(lai_var_finalize(t.h, dest), t.v, "LAI_ERROR_NONE")
        ELSE lai_var_assign(h, dest, source)

lai_obj_resize_string(h, object, length) ==
    IF object.type # "string" THEN Res(h, object, "LAI_ERROR_TYPE_MISMATCH")
    ELSE IF length > lai_strlen(h[object.ptr].bytes)
    THEN LET old == h[object.ptr].bytes
             k == lai_strlen(old)
         IN  Res([h EXCEPT ![object.ptr].bytes =
                      [i \in 1..(length + 1) |-> IF i <= k THEN old[i] ELSE 0]],
                 object, "LAI_ERROR_NONE")
    ELSE Res(h, object, "LAI_ERROR_NONE")

lai_obj_resize_buffer(h, object, size) ==
    IF object.type # "buffer" THEN Res(h, object, "LAI_ERROR_TYPE_MISMATCH")
    ELSE LET old == h[object.ptr].bytes IN
         Res([h EXCEPT ![object.ptr].bytes =
                  [i \in 1..size |-> IF i <= Len(old) THEN old[i] ELSE 0]],
             object, "LAI_ERROR_NONE")

lai_obj_resize_pkg(h, object, n) ==
    IF object.type # "package" THEN Res(h, object, "LAI_ERROR_TYPE_MISMATCH")
    ELSE LET old == h[object.ptr].elems IN
         IF n <= Len(old)
         THEN Res([FinalizeElems(h, SubSeq(old, n + 1, Len(old)))
                      EXCEPT ![object.ptr].elems = SubSeq(old, 1, n)],
                  object, "LAI_ERROR_NONE")
         ELSE Res([h EXCEPT ![object.ptr].elems =
                      [i \in 1..n |-> IF i <= Len(old) THEN old[i] ELSE NoVar]],
                  object, "LAI_ERROR_NONE")

\* the eight little-endian bytes of an integer
IntegerBytes(n) ==
    [i \in 1..8 |-> IF i % 2 = 1 THEN n[(i + 1) \div 2] % 256 ELSE n[i \div 2] \div 256]

\* lai_mutate_buffer(target, object): the target keeps its size
lai_mutate_buffer(h, target, object) ==
    LET size == lai_exec_buffer_size(h, target)
        src  == CASE object.type = "buffer"  -> h[object.ptr].bytes
                  [] object.type = "integer" -> IntegerBytes(object.integer)
                  [] object.type = "string"  ->
                        Prefix(h[object.ptr].bytes, lai_strlen(h[object.ptr].bytes) + 1)
                  [] OTHER -> <<>>
    IN  IF object.type \notin {"buffer", "integer", "string"}
        THEN Res(h, target, "LAI_ERROR_ILLEGAL_ARGUMENTS")
        ELSE Res([h EXCEPT ![target.ptr].bytes = Memcpy(Zeros(size), src, Min(Len(src), size))],
                 target, "LAI_ERROR_NONE")

\* lai_mutate_string(target, object) for a string source: resize, then strcpy
lai_mutate_string(h, target, object) ==
    IF object.type # "string" THEN Res(h, target, "LAI_ERROR_ILLEGAL_ARGUMENTS")
    ELSE LET length == lai_strlen(h[object.ptr].bytes)
             src == h[object.ptr].bytes
             r == lai_obj_resize_string(h, target, length)
         IN  IF r.err # "LAI_ERROR_NONE" THEN Res(r.h, target, "panic")
             ELSE Res([r.h EXCEPT ![target.ptr].bytes = Memcpy(@, src, length + 1)],
                      target, "LAI_ERROR_NONE")

\* what a variable holds, payloads followed: the content two variables are
\* compared by
RECURSIVE Content(_, _)
Content(h, v) ==
    CASE v.type = "integer" -> <<"integer", v.integer>>
      [] v.type = "string"  -> <<"string", Prefix(h[v.ptr].bytes, lai_strlen(h[v.ptr].bytes))>>
      [] v.type = "buffer"  -> <<"buffer", h[v.ptr].bytes>>
      [] v.type = "package" ->
            <<"package", [i \in 1..Len(h[v.ptr].elems) |-> Content(h, h[v.ptr].elems[i])]>>
      [] OTHER -> <<"none">>

\* the payloads a variable reaches
RECURSIVE Reach(_, _)
Reach(h, v) ==
    IF v.type \notin HeapTypes THEN {}
    ELSE {v.ptr} \cup UNION {Reach(h, h[v.ptr].elems[i]) : i \in 1..Len(h[v.ptr].elems)}

(***************************************************************************)
(* Conversions between integers and strings (core/object.c).  Characters   *)
(* are their ASCII codes.                                                  *)
(***************************************************************************)
\* a 64-bit integer divided by a small d: quotient and remainder
U64DivMod(a, d) ==
    LET c4 == a[4]
        c3 == (c4 % d) * Limb + a[3]
        c2 == (c3 % d) * Limb + a[2]
        c1 == (c2 % d) * Limb + a[1]
    IN  [q |-> <<c1 \div d, c2 \div d, c3 \div d, c4 \div d>>, r |-> c1 % d]

\* a * m + c modulo 2^64, for small m and c
U64MulAdd(a, m, c) ==
    LET s1 == a[1] * m + c
        s2 == a[2] * m + s1 \div Limb
        s3 == a[3] * m + s2 \div Limb
        s4 == a[4] * m + s3 \div Limb
    IN  <<s1 % Limb, s2 % Limb, s3 % Limb, s4 % Limb>>

\* the digits of a in the given base, most significant first
RECURSIVE Digits(_, _)
Digits(a, base) ==
    IF a = U64Zero THEN <<>>
    ELSE Append(Digits(U64DivMod(a, base).q, base), U64DivMod(a, base).r)

\* the characters printf writes for an unsigned number: no sign, no prefix,
\* no leading zeros, "0" for zero; upper-case letters for %X
DigitChar(d) == IF d < 10 THEN 48 + d ELSE 65 + (d - 10)
NumberChars(a, base) ==
    IF a = U64Zero THEN <<48>>
    ELSE [i \in 1..Len(Digits(a, base)) |-> DigitChar(Digits(a, base)[i])]

\* the characters of printf("%02d") and printf("%02X") for a byte
TwoDigitChars(b, base) ==
    IF b < base THEN <<48, DigitChar(b)>> ELSE NumberChars(U64(b), base)

\* lai_snprintf(s, n, ...): at most n - 1 characters and the terminating NUL
\* are stored at the start of s
Snprintf(s, n, chars) ==
    LET k == Min(Len(chars), n - 1) IN
    [i \in 1..Len(s) |-> IF i <= k THEN chars[i] ELSE IF i = k + 1 THEN 0 ELSE s[i]]

\* the value va_arg hands to a conversion that takes an unsigned int when
\* the argument passed is a uint64_t: the low 32 bits, or, where the
\* formatter reads a full register, all 64
VarArgWidths == {32, 64}
VarArgUnsigned(a, width) == IF width = 32 THEN <<a[1], a[2], 0, 0>> ELSE a

\* "dd," per buffer byte for ToDecimalString and "0xXX," for ToHexString,
\* the last comma replaced by NUL
RECURSIVE BufferChars(_, _, _)
BufferChars(bytes, base, prefix) ==
    IF bytes = <<>> THEN <<>>
    ELSE prefix \o <<TwoDigitChars(Head(bytes), base)[1], TwoDigitChars(Head(bytes), base)[2]>>
         \o <<IF Len(bytes) = 1 THEN 0 ELSE 44>> \o BufferChars(Tail(bytes), base, prefix)

lai_obj_to_decimal_string(h, object) ==
    CASE object.type = "integer" ->
            LET r == lai_create_string(h, 20) IN
            Res([r.h EXCEPT ![r.v.ptr].bytes = Snprintf(@, 21, NumberChars(object.integer, 10))],
                r.v, "LAI_ERROR_NONE")
      [] object.type = "buffer" ->
            LET r == lai_create_string(h, lai_exec_buffer_size(h, object) * 3) IN
            Res([r.h EXCEPT ![r.v.ptr].bytes =
                    Memcpy(@, BufferChars(h[object.ptr].bytes, 10, <<>>),
                           lai_exec_buffer_size(h, object) * 3)],
                r.v, "LAI_ERROR_NONE")
      [] object.type = "string" -> lai_obj_clone(h, NoVar, object)
      [] OTHER -> Res(h, NoVar, "LAI_ERROR_ILLEGAL_ARGUMENTS")

\* width: what the "%X" conversion makes of the 64-bit argument
lai_obj_to_hex_string(h, object, width) ==
    CASE object.type = "integer" ->
            LET r == lai_create_string(h, 16) IN
            Res([r.h EXCEPT ![r.v.ptr].bytes =
                    Snprintf(@, 17, NumberChars(VarArgUnsigned(object.integer, width), 16))],
                r.v, "LAI_ERROR_NONE")
      [] object.type = "buffer" ->
            LET r == lai_create_string(h, lai_exec_buffer_size(h, object) * 5) IN
            Res([r.h EXCEPT ![r.v.ptr].bytes =
                    Memcpy(@, BufferChars(h[object.ptr].bytes, 16, <<48, 120>>),
                           lai_exec_buffer_size(h, object) * 5)],
                r.v, "LAI_ERROR_NONE")
      [] object.type = "string" -> lai_obj_clone(h, NoVar, object)
      [] OTHER -> Res(h, NoVar, "LAI_ERROR_ILLEGAL_ARGUMENTS")

\* the value of a hexadecimal digit character, -1 for any other character
HexValue(c) ==
    IF c >= 48 /\ c <= 57 THEN c - 48
    ELSE IF c >= 97 /\ c <= 102 THEN c - 97 + 10
    ELSE IF c >= 65 /\ c <= 70 THEN c - 65 + 10
    ELSE -1

\* the loops of lai_obj_to_integer over string[i..string_len - 1] (1-based
\* here): the integer accumulated so far, or the error of the first
\* character that is no digit
RECURSIVE ParseHex(_, _, _, _)
ParseHex(string, i, string_len, integer) ==
    IF i > string_len THEN [err |-> "LAI_ERROR_NONE", integer |-> integer]
    ELSE IF HexValue(string[i]) < 0
    THEN [err |-> "LAI_ERROR_ILLEGAL_ARGUMENTS", integer |-> integer]
    ELSE ParseHex(string, i + 1, string_len, U64MulAdd(integer, 16, HexValue(string[i])))

ParseDecimalAsHex(string, i, string_len, integer) == ParseHex(string, i, string_len, integer)

RECURSIVE ParseDecimal(_, _, _, _)
ParseDecimal(string, i, string_len, integer) ==
    IF i > string_len THEN [err |-> "LAI_ERROR_NONE", integer |-> integer]
    ELSE IF string[i] < 48 \/ string[i] > 57
    THEN [err |-> "LAI_ERROR_ILLEGAL_ARGUMENTS", integer |-> integer]
    ELSE ParseDecimal(string, i + 1, string_len, U64MulAdd(integer, 10, string[i] - 48))

\* the little-endian uint64_t at the start of a buffer
BytesInteger(b) == [i \in 1..4 |-> b[2 * i - 1] + 256 * b[2 * i]]

ParsedInteger(h, p) ==
    IF p.err # "LAI_ERROR_NONE" THEN Res(h, NoVar, p.err)
    ELSE Res(h, IntVar(p.integer), "LAI_ERROR_NONE")

lai_obj_to_integer(h, object) ==
    CASE object.type = "buffer" ->
            IF lai_exec_buffer_size(h, object) < 8
            THEN Res(h, NoVar, "LAI_ERROR_ILLEGAL_ARGUMENTS")
            ELSE Res(h, IntVar(BytesInteger(h[object.ptr].bytes)), "LAI_ERROR_NONE")
      [] object.type = "string" ->
            LET string_len == lai_exec_string_length(h, object)
                string == h[object.ptr].bytes
            IN  IF string_len >= 2 /\ string[1] = 48 /\ string[2] \in {120, 88}
                THEN ParsedInteger(h, ParseHex(string, 3, string_len, U64Zero))
                ELSE ParsedInteger(h, ParseDecimal(string, 1, string_len, U64Zero))
      [] object.type = "integer" -> lai_obj_clone(h, NoVar, object)
      [] OTHER -> Res(h, NoVar, "LAI_ERROR_ILLEGAL_ARGUMENTS")

(***************************************************************************)
(* Conversion specification: an integer is converted to a string by        *)
(* ToHexString or ToDecimalString and the string back by ToInteger.        *)
(***************************************************************************)
\* limbs of the integers converted: zero, one, the digits around the two
\* bases, and all ones
LimbSamples == {0, 1, 9, 10, 16, 255, Limb - 1}
ConvInputs == {<<a, b, c, d>> : a \in LimbSamples, b \in {0, 1, Limb - 1},
                                c \in {0, 10, Limb - 1}, d \in {0, 16, Limb - 1}}

CnvIdle ==
    [stage |-> "idle", x |-> U64Zero, heap |-> EmptyHeap, str |-> NoVar,
     out |-> NoVar, err |-> "LAI_ERROR_NONE"]

ConvToHexString ==
    /\ OnlyConv
    /\ cnv.stage = "input"
    /\ \E width \in VarArgWidths :
         LET r == lai_obj_to_hex_string(cnv.heap, IntVar(cnv.x), width) IN
         cnv' = [cnv EXCEPT !.stage = "hex", !.heap = r.h, !.str = r.v, !.err = r.err]

ConvToDecimalString ==
    /\ OnlyConv
    /\ cnv.stage = "input"
    /\ LET r == lai_obj_to_decimal_string(cnv.heap, IntVar(cnv.x)) IN
       cnv' = [cnv EXCEPT !.stage = "decimal", !.heap = r.h, !.str = r.v, !.err = r.err]

ConvToInteger ==
    /\ OnlyConv
    /\ cnv.stage \in {"hex", "decimal"}
    /\ cnv.err = "LAI_ERROR_NONE"
    /\ LET r == lai_obj_to_integer(cnv.heap, cnv.str) IN
       cnv' = [cnv EXCEPT !.stage = IF cnv.stage = "hex" THEN "hex-integer"
                                    ELSE "decimal-integer",
                          !.heap = r.h, !.out = r.v, !.err = r.err]

(***************************************************************************)
(* Field access (core/opregion.c).  A uint64_t is the function of its 64   *)
(* bits, bit 0 the least significant; buffers and the region are functions *)
(* of their bits in little-endian order (bit 8 * i + j is bit j of byte    *)
(* i).                                                                     *)
(***************************************************************************)
BitIdx == 0..63
Bits64Zero == [i \in BitIdx |-> 0]
Bits64Ones == [i \in BitIdx |-> 1]
BitsShl(v, k) == [i \in BitIdx |-> IF i >= k THEN v[i - k] ELSE 0]
BitsShr(v, k) == [i \in BitIdx |-> IF i + k <= 63 THEN v[i + k] ELSE 0]
BitsAnd(a, b) == [i \in BitIdx |-> a[i] * b[i]]
BitsOr(a, b) == [i \in BitIdx |-> IF a[i] + b[i] > 0 THEN 1 ELSE 0]
BitsNot(a) == [i \in BitIdx |-> 1 - a[i]]

\* (UINT64_C(1) << n) - 1.  For n = 64 the shift is undefined: the x86-64
\* shift instruction takes the count modulo 64 and gives 1, so the mask is
\* 0 ("wrap"); a shift that pushes the bit out gives 0 and the mask is all
\* ones ("zero")
ShiftOutcomes == {"wrap", "zero"}
LowMask(n, shl64) ==
    IF n < 64 THEN [i \in BitIdx |-> IF i < n THEN 1 ELSE 0]
    ELSE IF shl64 = "wrap" THEN Bits64Zero ELSE Bits64Ones

\* fld_flags: access type in bits 0..3, update rule from bit 5 on
\* (aml_opcodes.h)
FIELD_ANY_ACCESS == 0
FIELD_BYTE_ACCESS == 1
FIELD_WORD_ACCESS == 2
FIELD_DWORD_ACCESS == 3
FIELD_QWORD_ACCESS == 4
FIELD_PRESERVE == 0
FIELD_WRITE_ONES == 1
FIELD_WRITE_ZEROES == 2

\* 1 << (32 - __builtin_clz(n - 1)) for n > 1: the least power of two that
\* is at least n
RECURSIVE RoundUpPow2(_, _)
RoundUpPow2(n, p) == IF p >= n THEN p ELSE RoundUpPow2(n, 2 * p)

\* the width computed with the limit of SystemMemory for every address space
lai_calculate_access_width_memory(field) ==
    CASE field.fld_flags % 16 = FIELD_BYTE_ACCESS -> 8
      [] field.fld_flags % 16 = FIELD_WORD_ACCESS -> 16
      [] field.fld_flags % 16 = FIELD_DWORD_ACCESS -> 32
      [] field.fld_flags % 16 = FIELD_QWORD_ACCESS -> 64
      [] field.fld_flags % 16 = FIELD_ANY_ACCESS ->
            LET access_size == IF field.fld_size > 1 THEN RoundUpPow2(field.fld_size, 2) ELSE 1
            IN  IF access_size > 64 THEN 64
                ELSE IF access_size < 8 THEN 8 ELSE access_size
      [] OTHER -> 0

\* 0 stands for lai_panic("invalid access size")
lai_calculate_access_width(field) ==
    CASE field.fld_flags % 16 = FIELD_BYTE_ACCESS -> 8
      [] field.fld_flags % 16 = FIELD_WORD_ACCESS -> 16
      [] field.fld_flags % 16 = FIELD_DWORD_ACCESS -> 32
      [] field.fld_flags % 16 = FIELD_QWORD_ACCESS -> 64
      [] field.fld_flags % 16 = FIELD_ANY_ACCESS ->
            LET access_size == IF field.fld_size > 1 THEN RoundUpPow2(field.fld_size, 2) ELSE 1
                max_access_width == IF field.op_address_space = "memory" THEN 64 ELSE 32
            IN  IF access_size > max_access_width THEN max_access_width
                ELSE IF access_size < 8 THEN 8 ELSE access_size
      [] OTHER -> 0

\* lai_buffer_put_at: num_bits bits of value are or-ed into the buffer from
\* bit_offset on, byte by byte
lai_buffer_put_at(buffer, value, bit_offset, num_bits) ==
    [b \in DOMAIN buffer |->
        IF b >= bit_offset /\ b < bit_offset + num_bits /\ value[b - bit_offset] = 1
        THEN 1 ELSE buffer[b]]

\* lai_buffer_get_at: num_bits bits of the buffer from bit_offset on
lai_buffer_get_at(buffer, bit_offset, num_bits) ==
    [i \in BitIdx |-> IF i < num_bits THEN buffer[bit_offset + i] ELSE 0]

\* lai_perform_read / lai_perform_write on a SystemMemory region: one access
\* of access_size bits at the byte offset, through the mapping the host
\* returns
lai_perform_read(mem, access_size, offset) ==
    [i \in BitIdx |-> IF i < access_size THEN mem[8 * offset + i] ELSE 0]

lai_perform_write(mem, access_size, offset, value) ==
    [b \in DOMAIN mem |->
        IF b >= 8 * offset /\ b < 8 * offset + access_size THEN value[b - 8 * offset]
        ELSE mem[b]]

\* the loop of lai_read_field_internal from the given progress on
RECURSIVE ReadFieldLoop(_, _, _, _, _, _, _)
ReadFieldLoop(destination, mem, field, shl64, access_size, offset, progress) ==
    IF progress >= field.fld_size THEN destination
    ELSE LET bit_offset == (field.fld_offset + progress) % access_size
             access_bits == Min(field.fld_size - progress, access_size - bit_offset)
         IN  ReadFieldLoop(
                lai_buffer_put_at(destination,
                    BitsAnd(BitsShr(lai_perform_read(mem, access_size, offset), bit_offset),
                            LowMask(access_bits, shl64)),
                    progress, access_bits),
                mem, field, shl64, access_size, offset + access_size \div 8,
                progress + access_bits)

lai_read_field_internal(destination, mem, field, shl64) ==
    ReadFieldLoop(destination, mem, field, shl64, lai_calculate_access_width(field),
                  (field.fld_offset - (field.fld_offset % lai_calculate_access_width(field))) \div 8,
                  0)

\* the value lai_write_field_internal starts an access unit from, by the
\* update rule of the field
UpdateRuleValue(mem, field, access_size, offset) ==
    CASE (field.fld_flags \div 32) % 16 = FIELD_PRESERVE ->
            lai_perform_read(mem, access_size, offset)
      [] (field.fld_flags \div 32) % 16 = FIELD_WRITE_ONES -> Bits64Ones
      [] (field.fld_flags \div 32) % 16 = FIELD_WRITE_ZEROES -> Bits64Zero

\* the value written to one access unit: value &= ~mask;
\* value |= (new_val << bit_offset) & mask
WriteUnitValueAll(value, new_val, mask, bit_offset) == BitsShl(new_val, bit_offset)
WriteUnitValue(value, new_val, mask, bit_offset) ==
    BitsOr(BitsAnd(value, BitsNot(mask)), BitsAnd(BitsShl(new_val, bit_offset), mask))

\* the loop of lai_write_field_internal from the given progress on; R is
\* [mem, written], written the byte offsets of the units accessed for
\* writing
RECURSIVE WriteFieldLoop(_, _, _, _, _, _, _)
WriteFieldLoop(R, source, field, shl64, access_size, offset, progress) ==
    IF progress >= field.fld_size THEN R
    ELSE LET bit_offset == (field.fld_offset + progress) % access_size
             access_bits == Min(field.fld_size - progress, access_size - bit_offset)
         IN  WriteFieldLoop(
                [mem |-> lai_perform_write(R.mem, access_size, offset,
                            WriteUnitValue(UpdateRuleValue(R.mem, field, access_size, offset),
                                           lai_buffer_get_at(source, progress, access_bits),
                                           BitsShl(LowMask(access_bits, shl64), bit_offset),
                                           bit_offset)),
                 written |-> R.written \cup {offset}],
                source, field, shl64, access_size, offset + access_size \div 8,
                progress + access_bits)

lai_write_field_internal(mem, source, field, shl64) ==
    WriteFieldLoop([mem |-> mem, written |-> {}], source, field, shl64,
                   lai_calculate_access_width(field),
                   (field.fld_offset - (field.fld_offset % lai_calculate_access_width(field))) \div 8,
                   0)

(***************************************************************************)
(* Field specification: a field of a SystemMemory region is written from   *)
(* a buffer and read back.                                                 *)
(***************************************************************************)
\* the widths of the fields, the highest bit offset of a field in the
\* region, and the size of the region in bits
FieldSizes == {1, 7, 8, 9, 31, 32, 65}
MaxFieldOffset == 63
RegionBits == 256
AccessTypes == {FIELD_ANY_ACCESS, FIELD_BYTE_ACCESS, FIELD_WORD_ACCESS,
                FIELD_DWORD_ACCESS, FIELD_QWORD_ACCESS}
UpdateRules == {FIELD_PRESERVE, FIELD_WRITE_ONES, FIELD_WRITE_ZEROES}

Fields ==
    {[fld_offset |-> o, fld_size |-> n, fld_flags |-> a + 32 * u, op_address_space |-> "memory"] :
        o \in 0..MaxFieldOffset, n \in FieldSizes, a \in AccessTypes, u \in UpdateRules}

\* contents of the region before the write, and of the buffer written
RegionPatterns == {[b \in 0..(RegionBits - 1) |-> 0], [b \in 0..(RegionBits - 1) |-> 1]}
SourcePatterns(n) ==
    {[b \in 0..(8 * ((n + 7) \div 8) - 1) |-> 1],
     [b \in 0..(8 * ((n + 7) \div 8) - 1) |-> IF b % 3 = 1 THEN 0 ELSE 1]}

FldIdle ==
    [stage |-> "idle", field |-> [fld_offset |-> 0, fld_size |-> 1, fld_flags |-> 0,
                                  op_address_space |-> "memory"],
     shl64 |-> "wrap", mem |-> <<>>, before |-> <<>>, written |-> {},
     source |-> <<>>, destination |-> <<>>, access_size |-> 0, log |-> <<>>]

\* lai_write_field with a buffer source
FieldWrite ==
    /\ OnlyField
    /\ fld.stage = "input"
    /\ LET R == lai_write_field_internal(fld.mem, fld.source, fld.field, fld.shl64) IN
       fld' = [fld EXCEPT !.stage = "written", !.before = fld.mem, !.mem = R.mem,
                          !.written = R.written]

\* lai_read_field: the field is read into a zeroed buffer of
\* (fld_size + 7) / 8 bytes
FieldRead ==
    /\ OnlyField
    /\ fld.stage = "written"
    /\ fld' = [fld EXCEPT !.stage = "read",
                          !.destination =
                              lai_read_field_internal(
                                  [b \in 0..(8 * ((fld.field.fld_size + 7) \div 8) - 1) |-> 0],
                                  fld.mem, fld.field, fld.shl64)]

\* fields of every declared access type in every kind of operation region
MaxFieldSize == 130
RegionSpaces == {"memory", "io", "pci", "ec", "smbus", "cmos"}
WidthFields ==
    {[fld_offset |-> 0, fld_size |-> n, fld_flags |-> a + 32 * u, op_address_space |-> r] :
        n \in 0..MaxFieldSize, a \in AccessTypes, u \in {FIELD_PRESERVE, FIELD_WRITE_ONES},
        r \in RegionSpaces}

\* the access width of a declared field is computed
CalculateAccessWidth ==
    /\ OnlyField
    /\ fld.stage = "declared"
    /\ fld' = [fld EXCEPT !.stage = "width",
                          !.access_size = lai_calculate_access_width(fld.field)]

(***************************************************************************)
(* IndexField access (core/opregion.c:400-439).  The index register and    *)
(* the data register are Fields of a SystemMemory region; an access unit   *)
(* of the IndexField writes the unit's byte offset to the index register   *)
(* and then reads or writes the data register.  log records every access   *)
(* of a register with the content of the index register at that moment.    *)
(***************************************************************************)
NatBits(n) == [i \in BitIdx |-> IF i < 30 THEN (n \div (2 ^ i)) % 2 ELSE 0]
RECURSIVE BitsNat(_, _)
BitsNat(v, n) == IF n = 0 THEN 0 ELSE v[0] + 2 * BitsNat([i \in BitIdx |-> IF i < 63 THEN v[i + 1] ELSE 0], n - 1)

IndexRegister(u) ==
    [fld_offset |-> 0, fld_size |-> 8, fld_flags |-> FIELD_BYTE_ACCESS + 32 * u,
     op_address_space |-> "memory"]
DataRegister(u) ==
    [fld_offset |-> 16, fld_size |-> 16, fld_flags |-> FIELD_WORD_ACCESS + 32 * u,
     op_address_space |-> "memory"]

\* lai_write_field with an integer source: the 8 bytes of the integer
lai_write_field(mem, field, integer) == lai_write_field_internal(mem, integer, field, "wrap").mem

\* lai_read_field of a field of at most 8 bytes: the integer of its bytes
lai_read_field(mem, field) ==
    LET bytes == (field.fld_size + 7) \div 8
        buf == lai_read_field_internal([b \in 0..(8 * bytes - 1) |-> 0], mem, field, "wrap")
    IN  [i \in BitIdx |-> IF i < 8 * bytes THEN buf[i] ELSE 0]

IndexEvent(mem, F, reg, op) ==
    [reg |-> reg, op |-> op, index |-> BitsNat(lai_read_field(mem, F.index), 8)]

\* R is [mem, log, value]
lai_perform_indexfield_read(R, F, offset) ==
    LET m == lai_write_field(R.mem, F.index, NatBits(offset)) IN
    [mem |-> m,
     log |-> R.log \o <<IndexEvent(m, F, "index", "write"), IndexEvent(m, F, "data", "read")>>,
     value |-> lai_read_field(m, F.data)]

\* the data register written before the index register
lai_perform_indexfield_write_late(R, F, offset, value) ==
    LET d == lai_write_field(R.mem, F.data, value)
        m == lai_write_field(d, F.index, NatBits(offset))
    IN  [mem |-> m,
         log |-> R.log \o <<IndexEvent(d, F, "data", "write"), IndexEvent(m, F, "index", "write")>>,
         value |-> value]

lai_perform_indexfield_write(R, F, offset, value) ==
    LET m == lai_write_field(R.mem, F.index, NatBits(offset))
        d == lai_write_field(m, F.data, value)
    IN  [mem |-> d,
         log |-> R.log \o <<IndexEvent(m, F, "index", "write"), IndexEvent(d, F, "data", "write")>>,
         value |-> value]

\* the loop of lai_read_field_internal on an IndexField
RECURSIVE IndexReadLoop(_, _, _, _, _, _)
IndexReadLoop(R, destination, F, access_size, offset, progress) ==
    IF progress >= F.fld_size THEN [R EXCEPT !.value = destination]
    ELSE LET bit_offset == (F.fld_offset + progress) % access_size
             access_bits == Min(F.fld_size - progress, access_size - bit_offset)
             P == lai_perform_indexfield_read(R, F, offset)
         IN  IndexReadLoop(P,
                lai_buffer_put_at(destination,
                    BitsAnd(BitsShr(P.value, bit_offset), LowMask(access_bits, "wrap")),
                    progress, access_bits),
                F, access_size, offset + access_size \div 8, progress + access_bits)

\* the loop of lai_write_field_internal on an IndexField
RECURSIVE IndexWriteLoop(_, _, _, _, _, _)
IndexWriteLoop(R, source, F, access_size, offset, progress) ==
    IF progress >= F.fld_size THEN R
    ELSE LET bit_offset == (F.fld_offset + progress) % access_size
             access_bits == Min(F.fld_size - progress, access_size - bit_offset)
             write_flag == (F.fld_flags \div 32) % 16
             P == CASE write_flag = FIELD_PRESERVE -> lai_perform_indexfield_read(R, F, offset)
                    [] write_flag = FIELD_WRITE_ONES -> [R EXCEPT !.value = Bits64Ones]
                    [] write_flag = FIELD_WRITE_ZEROES -> [R EXCEPT !.value = Bits64Zero]
             value == WriteUnitValue(P.value, lai_buffer_get_at(source, progress, access_bits),
                                     BitsShl(LowMask(access_bits, "wrap"), bit_offset),
                                     bit_offset)
         IN  IndexWriteLoop(lai_perform_indexfield_write(P, F, offset, value),
                            source, F, access_size, offset + access_size \div 8,
                            progress + access_bits)

\* an IndexField node has no region: fld_region_node stays a null pointer
\* (exec.c:2958-2964), which lai_calculate_access_width dereferences for an
\* AnyAcc field.  The read faults, or gives a byte that is
\* ACPI_OPREGION_MEMORY or another value.
NullRegionOutcomes == {"fault", "memory", "other"}

IndexFieldOffsets == {0, 3, 8, 13}
IndexFieldSizes == {1, 8, 9, 20, 33}
IndexFields ==
    {[fld_offset |-> o, fld_size |-> n, fld_flags |-> a + 32 * u, op_address_space |-> r,
      index |-> IndexRegister(ui), data |-> DataRegister(ud)] :
        o \in IndexFieldOffsets, n \in IndexFieldSizes, a \in AccessTypes, u \in UpdateRules,
        r \in NullRegionOutcomes, ui \in {FIELD_PRESERVE, FIELD_WRITE_ZEROES},
        ud \in {FIELD_PRESERVE, FIELD_WRITE_ONES}}

IndexFaults(F) == F.fld_flags % 16 = FIELD_ANY_ACCESS /\ F.op_address_space = "fault"

\* lai_write_field_internal on the IndexField
IndexFieldWrite ==
    /\ OnlyField
    /\ fld.stage = "indexfield"
    /\ LET F == fld.field
           access_size == lai_calculate_access_width(F)
           R == IndexWriteLoop([mem |-> fld.mem, log |-> <<>>, value |-> Bits64Zero],
                               fld.source, F, access_size,
                               (F.fld_offset - (F.fld_offset % access_size)) \div 8, 0)
       IN  fld' = IF IndexFaults(F) THEN [fld EXCEPT !.stage = "fault"]
                  ELSE [fld EXCEPT !.stage = "index-written", !.before = fld.mem,
                                   !.mem = R.mem, !.log = R.log]

\* lai_read_field_internal on the IndexField
IndexFieldRead ==
    /\ OnlyField
    /\ fld.stage = "indexfield"
    /\ LET F == fld.field
           access_size == lai_calculate_access_width(F)
           R == IndexReadLoop([mem |-> fld.mem, log |-> <<>>, value |-> Bits64Zero],
                              [b \in 0..(8 * ((F.fld_size + 7) \div 8) - 1) |-> 0],
                              F, access_size,
                              (F.fld_offset - (F.fld_offset % access_size)) \div 8, 0)
       IN  fld' = IF IndexFaults(F) THEN [fld EXCEPT !.stage = "fault"]
                  ELSE [fld EXCEPT !.stage = "index-read", !.before = fld.mem,
                                   !.mem = R.mem, !.log = R.log, !.destination = R.value]

(***************************************************************************)
(* Host hooks.  Every hook is a weak symbol (host.h:43-74): a hook the     *)
(* host does not define is a null function pointer.  The operations below  *)
(* are the ones that test or call a hook; each yields the set of outcomes  *)
(* it can have on a host that provides the hooks in `hooks`.               *)
(***************************************************************************)
HostHooks ==
    {"laihost_map", "laihost_inb", "laihost_inw", "laihost_ind",
     "laihost_outb", "laihost_outw", "laihost_outd",
     "laihost_pci_readb", "laihost_pci_readw", "laihost_pci_readd",
     "laihost_pci_writeb", "laihost_pci_writew", "laihost_pci_writed",
     "laihost_sleep", "laihost_timer", "laihost_sync_wait", "laihost_sync_wake"}

\* a complete host, hosts that lack one or two hooks, and a host with none
HostConfigs == {HostHooks \ {a, b} : a, b \in HostHooks} \cup {HostHooks, {}}

AddressSpaces == {"ACPI_OPREGION_MEMORY", "ACPI_OPREGION_IO", "ACPI_OPREGION_PCI"}
AccessSizes == {8, 16, 32, 64}

\* a call through a null function pointer is undefined: the jump to address
\* 0 faults, or runs whatever is mapped there and comes back
NullCallOutcomes == {"fault", "returned"}
HostCall(hooks, hook) == IF hook \in hooks THEN {"called"} ELSE NullCallOutcomes

InHook(access_size) == CASE access_size = 8 -> "laihost_inb" [] access_size = 16 -> "laihost_inw"
                         [] OTHER -> "laihost_ind"
OutHook(access_size) == CASE access_size = 8 -> "laihost_outb" [] access_size = 16 -> "laihost_outw"
                          [] OTHER -> "laihost_outd"
PciReadHook(access_size) ==
    CASE access_size = 8 -> "laihost_pci_readb" [] access_size = 16 -> "laihost_pci_readw"
      [] OTHER -> "laihost_pci_readd"
PciWriteHook(access_size) ==
    CASE access_size = 8 -> "laihost_pci_writeb" [] access_size = 16 -> "laihost_pci_writew"
      [] OTHER -> "laihost_pci_writed"

\* lai_perform_read on a region without override
PerformReadOutcomes(hooks, op_address_space, access_size) ==
    CASE op_address_space = "ACPI_OPREGION_MEMORY" ->
            IF "laihost_map" \notin hooks THEN {"panic"} ELSE {"called"}
      [] op_address_space = "ACPI_OPREGION_IO" ->
            IF {"laihost_inb", "laihost_inw", "laihost_ind"} \ hooks # {} THEN {"panic"}
            ELSE IF access_size = 64 THEN {"panic"}
            ELSE HostCall(hooks, InHook(access_size))
      [] op_address_space = "ACPI_OPREGION_PCI" ->
            IF {"laihost_pci_readb", "laihost_pci_readw", "laihost_pci_readd"} \ hooks # {}
            THEN {"panic"}
            ELSE IF access_size = 64 THEN {"panic"}
            ELSE HostCall(hooks, PciReadHook(access_size))

\* lai_perform_write on a region without override; the test before a port
\* write names laihost_inw where the call uses laihost_outw
PerformWriteOutcomes(hooks, op_address_space, access_size) ==
    CASE op_address_space = "ACPI_OPREGION_MEMORY" ->
            IF "laihost_map" \notin hooks THEN {"panic"} ELSE {"called"}
      [] op_address_space = "ACPI_OPREGION_IO" ->
            IF {"laihost_outb", "laihost_inw", "laihost_outd"} \ hooks # {} THEN {"panic"}
            ELSE IF access_size = 64 THEN {"panic"}
            ELSE HostCall(hooks, OutHook(access_size))
      [] op_address_space = "ACPI_OPREGION_PCI" ->
            IF {"laihost_pci_writeb", "laihost_pci_writew", "laihost_pci_writed"} \ hooks # {}
            THEN {"panic"}
            ELSE IF access_size = 64 THEN {"panic"}
            ELSE HostCall(hooks, PciWriteHook(access_size))

\* Timer(), Stall(time) and Sleep(time) of lai_exec_reduce_op / lai_exec_parse
TimerOutcomes(hooks) == IF "laihost_timer" \notin hooks THEN {"panic"} ELSE {"called"}
StallOutcomes(hooks, time) ==
    IF "laihost_timer" \notin hooks THEN {"panic"}
    ELSE IF (IF time = 0 THEN 1 ELSE time) > 100 THEN HostCall(hooks, "laihost_sleep")
    ELSE HostCall(hooks, "laihost_timer")
SleepOutcomes(hooks) == IF "laihost_sleep" \notin hooks THEN {"panic"} ELSE {"called"}
StallTimes == {0, 100, 101}

\* lai_mutex_lock and lai_mutex_unlock on a mutex word v: the hook is
\* needed only when the mutex is held, respectively contended
MutexWords == {0, LAI_MUTEX_LOCKED, LAI_MUTEX_LOCKED + LAI_MUTEX_CONTENDED}
MutexLockOutcomes(hooks, v) ==
    IF ~MutexLocked(v) THEN {"no hook used"}
    ELSE IF "laihost_sync_wait" \notin hooks THEN {"panic"} ELSE {"called"}
MutexUnlockOutcomes(hooks, v) ==
    IF ~MutexLocked(v) THEN {"panic"}
    ELSE IF ~MutexContended(v) THEN {"no hook used"}
    ELSE IF "laihost_sync_wake" \notin hooks THEN {"panic"} ELSE {"called"}

\* op: the operation performed; needs: the hooks it depends on
HstIdle == [hooks |-> HostHooks, op |-> <<"none">>, needs |-> {}, outcome |-> "idle"]

HostDo(op, needs, outcomes) ==
    /\ OnlyHost
    /\ hst.outcome = "idle"
    /\ \E o \in outcomes : hst' = [hst EXCEPT !.op = op, !.needs = needs, !.outcome = o]

HostRead ==
    \E a \in AddressSpaces, n \in AccessSizes :
        HostDo(<<"lai_perform_read", a, n>>,
               CASE a = "ACPI_OPREGION_MEMORY" -> {"laihost_map"}
                 [] a = "ACPI_OPREGION_IO" -> {InHook(n)}
                 [] OTHER -> {PciReadHook(n)},
               PerformReadOutcomes(hst.hooks, a, n))
HostWrite ==
    \E a \in AddressSpaces, n \in AccessSizes :
        HostDo(<<"lai_perform_write", a, n>>,
               CASE a = "ACPI_OPREGION_MEMORY" -> {"laihost_map"}
                 [] a = "ACPI_OPREGION_IO" -> {OutHook(n)}
                 [] OTHER -> {PciWriteHook(n)},
               PerformWriteOutcomes(hst.hooks, a, n))
HostTimer == HostDo(<<"Timer">>, {"laihost_timer"}, TimerOutcomes(hst.hooks))
HostStall ==
    \E time \in StallTimes :
        HostDo(<<"Stall", time>>,
               IF time > 100 THEN {"laihost_sleep"} ELSE {"laihost_timer"},
               StallOutcomes(hst.hooks, time))
HostSleep == HostDo(<<"Sleep">>, {"laihost_sleep"}, SleepOutcomes(hst.hooks))
HostMutexLock ==
    \E v \in MutexWords :
        HostDo(<<"lai_mutex_lock", v>>,
               IF MutexLocked(v) THEN {"laihost_sync_wait"} ELSE {},
               MutexLockOutcomes(hst.hooks, v))
HostMutexUnlock ==
    \E v \in MutexWords :
        HostDo(<<"lai_mutex_unlock", v>>,
               IF MutexContended(v) THEN {"laihost_sync_wake"} ELSE {},
               MutexUnlockOutcomes(hst.hooks, v))

(***************************************************************************)
(* Object specification: variables in slots, operated on by the object.c   *)
(* API.                                                                    *)
(***************************************************************************)
ObjInit ==
    [ heap  |-> EmptyHeap,
      var   |-> [i \in Slots |-> NoVar],
      panic |-> FALSE,
      steps |-> 0,
      \* history: the last operation, and the pairs <<clone, original>> of
      \* slots not rewritten since the clone was made and into which nothing
      \* of the other side was stored
      \* rc: the reference count, before the operation, of the payload the
      \* destination variable pointed to (0 when it pointed to none)
      last  |-> [op |-> "init", d |-> 0, s |-> 0, rc |-> 0],
      twins |-> {} ]

Untwin(tw, d) == {p \in tw : p[1] # d /\ p[2] # d}

\* storing a reference into a package ends the pairs whose two sides it
\* makes share a payload
UntwinShared(tw, h) ==
    {p \in tw : Reach(h, obj.var[p[1]]) \cap Reach(h, obj.var[p[2]]) = {}}

ObjCommit(r, d, op, s, tw) ==
    obj' = [obj EXCEPT !.heap = r.h,
                       !.var[d] = IF r.err = "panic" THEN obj.var[d] ELSE r.v,
                       !.panic = (r.err = "panic"),
                       !.steps = @ + 1,
                       !.last = [op |-> op, d |-> d, s |-> s,
                                 rc |-> IF obj.var[d].type \in HeapTypes
                                        THEN obj.heap[obj.var[d].ptr].rc ELSE 0],
                       !.twins = tw]

ObjEnabled == ~obj.panic /\ obj.steps < MaxObjSteps

Strings == {<<1>>, <<2, 1>>}

ObjCreateString(d) ==
    /\ OnlyObject /\ ObjEnabled
    /\ obj.var[d].type = "none"
    /\ \E str \in Strings :
         ObjCommit(lai_create_c_string(obj.heap, str), d, "create", 0, Untwin(obj.twins, d))

ObjCreateBuffer(d) ==
    /\ OnlyObject /\ ObjEnabled
    /\ obj.var[d].type = "none"
    /\ \E size \in 1..MaxSize :
         ObjCommit(lai_create_buffer(obj.heap, size), d, "create", 0, Untwin(obj.twins, d))

ObjCreatePkg(d) ==
    /\ OnlyObject /\ ObjEnabled
    /\ obj.var[d].type = "none"
    /\ \E n \in 1..MaxSize :
         ObjCommit(lai_create_pkg(obj.heap, n), d, "create", 0, Untwin(obj.twins, d))

ObjCreateInteger(d) ==
    /\ OnlyObject /\ ObjEnabled
    /\ obj.var[d].type = "none"
    /\ \E n \in 1..MaxSize :
         ObjCommit(Res(obj.heap, IntVar(U64(n)), "LAI_ERROR_NONE"), d, "create", 0,
                   Untwin(obj.twins, d))

ObjAssign(d, s) ==
    /\ OnlyObject /\ ObjEnabled
    /\ d # s
    /\ ObjCommit(lai_var_assign(obj.heap, obj.var[d], obj.var[s]), d, "assign", s,
                 Untwin(obj.twins, d))

ObjFinalize(d) ==
    /\ OnlyObject /\ ObjEnabled
    /\ obj.var[d].type # "none"
    /\ ObjCommit(Res(lai_var_finalize(obj.heap, obj.var[d]), NoVar, "LAI_ERROR_NONE"),
                 d, "finalize", 0, Untwin(obj.twins, d))

ObjClone(d, s) ==
    /\ OnlyObject /\ ObjEnabled
    /\ obj.var[s].type # "none"
    /\ ObjCommit(lai_obj_clone(obj.heap, obj.var[d], obj.var[s]), d, "clone", s,
                 IF d = s THEN Untwin(obj.twins, d)
                 ELSE Untwin(obj.twins, d) \cup {<<d, s>>})

\* a package element is set; packages nest one level deep
ObjPkgStore(d, s) ==
    /\ OnlyObject /\ ObjEnabled
    /\ obj.var[d].type = "package"
    /\ d # s
    /\ obj.var[s].type # "none"
    /\ obj.var[s].type = "package" =>
         /\ \A e \in 1..Len(obj.heap[obj.var[s].ptr].elems) :
               obj.heap[obj.var[s].ptr].elems[e].type # "package"
         /\ \A id \in PayloadIds : \A e \in 1..Len(obj.heap[id].elems) :
               obj.heap[id].elems[e] # obj.var[d]
         /\ obj.var[s].ptr # obj.var[d].ptr
    /\ \E i \in 0..(lai_exec_pkg_size(obj.heap, obj.var[d]) - 1) :
         LET h == lai_exec_pkg_store(obj.heap, obj.var[s], obj.var[d], i) IN
         ObjCommit(Res(h, obj.var[d], "LAI_ERROR_NONE"), d, "mutate", s,
                   UntwinShared(obj.twins, h))

ObjMutateBuffer(d, s) ==
    /\ OnlyObject /\ ObjEnabled
    /\ obj.var[d].type = "buffer"
    /\ obj.var[s].type \in {"buffer", "integer", "string"}
    /\ ObjCommit(lai_mutate_buffer(obj.heap, obj.var[d], obj.var[s]), d, "mutate", s,
                 obj.twins)

ObjMutateString(d, s) ==
    /\ OnlyObject /\ ObjEnabled
    /\ obj.var[d].type = "string"
    /\ obj.var[s].type = "string"
    /\ ObjCommit(lai_mutate_string(obj.heap, obj.var[d], obj.var[s]), d, "mutate", s,
                 obj.twins)

ObjResize(d) ==
    /\ OnlyObject /\ ObjEnabled
    /\ obj.var[d].type \in {"buffer", "package"}
    /\ \E n \in 1..MaxSize :
         ObjCommit(IF obj.var[d].type = "buffer"
                   THEN lai_obj_resize_buffer(obj.heap, obj.var[d], n)
                   ELSE lai_obj_resize_pkg(obj.heap, obj.var[d], n),
                   d, "mutate", 0, obj.twins)


(***************************************************************************)
(* Interpreter (core/exec.c).                                              *)
(***************************************************************************)
(***************************************************************************)
(* AML encoding.  Opcode values are those of the ACPI specification.       *)
(***************************************************************************)
ZERO_OP == 0
ONE_OP == 1
NAME_OP == 8
BYTEPREFIX == 10
SCOPE_OP == 16
BUFFER_OP == 17
METHOD_OP == 20
EXTOP_PREFIX == 91
STRINGPREFIX == 13
\* second byte of the two-byte opcode Revision
REVISION_OP == 48
\* include/lai/core.h
LAI_REVISION == 538969874
ROOT_CHAR == 92
PARENT_CHAR == 94
LOCAL0_OP == 96
ARG0_OP == 104
STORE_OP == 112
ADD_OP == 114
SUBTRACT_OP == 116
INCREMENT_OP == 117
DECREMENT_OP == 118
DIVIDE_OP == 120
BYTEFIELD_OP == 140
LNOT_OP == 146
LEQUAL_OP == 147
CONTINUE_OP == 159
IF_OP == 160
ELSE_OP == 161
WHILE_OP == 162
NOP_OP == 163
RETURN_OP == 164
BREAK_OP == 165
ONES_OP == 255
METHOD_ARGC_MASK == 7

\* PkgLength of a package whose content is n bytes long: the encoded size
\* counts its own bytes
PkgLength(n) ==
    IF n + 1 < 64 THEN <<n + 1>>
    ELSE <<64 + ((n + 2) % 16), (n + 2) \div 16>>

Pkg(op, content) == <<op>> \o PkgLength(Len(content)) \o content

\* name segments, as their four characters
SegMAIN == <<77, 65, 73, 78>>
SegTST == <<84, 83, 84, 95>>
SegSUB == <<83, 85, 66, 95>>
SegFALL == <<70, 65, 76, 76>>
SegFOO == <<70, 79, 79, 95>>
SegFLD == <<70, 76, 68, 95>>
SegBUF == <<66, 85, 70, 95>>
SegROOT == <<92, 95, 95, 95>>

AmlMethod(seg, argc, body) == Pkg(METHOD_OP, seg \o <<argc>> \o body)
AmlWhile(pred, body) == Pkg(WHILE_OP, pred \o body)
AmlIf(pred, body) == Pkg(IF_OP, pred \o body)
AmlElse(body) == Pkg(ELSE_OP, body)
AmlScope(name, body) == Pkg(SCOPE_OP, name \o body)
AmlByte(n) == <<BYTEPREFIX, n>>
AmlLocal(i) == <<LOCAL0_OP + i>>
AmlArg(i) == <<ARG0_OP + i>>
AmlReturn(x) == <<RETURN_OP>> \o x
AmlStore(x, target) == <<STORE_OP>> \o x \o target
AmlAdd(x, y) == <<ADD_OP>> \o x \o y \o <<ZERO_OP>>
AmlDivide(x, y, remainder, quotient) == <<DIVIDE_OP>> \o x \o y \o remainder \o quotient
AmlIncrement(target) == <<INCREMENT_OP>> \o target
AmlDecrement(target) == <<DECREMENT_OP>> \o target
AmlLEqual(x, y) == <<LEQUAL_OP>> \o x \o y
AmlName(seg, x) == <<NAME_OP>> \o seg \o x
AmlBuffer(size, bytes) == Pkg(BUFFER_OP, size \o bytes)
AmlCreateByteField(buf, index, seg) == <<BYTEFIELD_OP>> \o buf \o index \o seg

(***************************************************************************)
(* Interpreter state (lai_state_t, core/exec_impl.h) and the namespace.    *)
(* A pc counts bytes from the code pointer of the context, kept as the     *)
(* offset of that pointer in the table.                                    *)
(***************************************************************************)
Push(s, x) == Append(s, x)
Pop(s) == SubSeq(s, 1, Len(s) - 1)
PopN(s, n) == SubSeq(s, 1, Len(s) - n)
Top(s) == s[Len(s)]

\* lai_stackitem_t; the kinds share the fields of the union
Item(kind) ==
    [ kind |-> kind, opstack_frame |-> 0, want_result |-> FALSE,
      ivk_argc |-> 0, op_opcode |-> 0, op_arg_modes |-> <<>>,
      state |-> 0, loop_pred |-> 0,
      cond_has_else |-> FALSE, cond_else_pc |-> 0, cond_else_limit |-> 0 ]

\* struct lai_operand
Operand(tag) == [tag |-> tag, object |-> NoVar, handle |-> 0, index |-> 0,
                 unres_ctx_handle |-> 0, unres_aml |-> 0]
ObjectOperand(v) == [Operand("LAI_OPERAND_OBJECT") EXCEPT !.object = v]

\* struct lai_invocation; id numbers the invocations of a run
NoInvocation == [present |-> FALSE, id |-> 0, arg |-> <<>>, local |-> <<>>,
                 per_method_list |-> <<>>]
NewInvocation(id) == [present |-> TRUE, id |-> id, arg |-> NoVars(7),
                      local |-> NoVars(8), per_method_list |-> <<>>]

\* lai_nsnode_t; creator is the invocation that declared the node
Node(name, type, parent) ==
    [ name |-> name, type |-> type, parent |-> parent, installed |-> FALSE,
      pointer |-> 0, size |-> 0, method_flags |-> 0, object |-> NoVar,
      bf_buffer |-> 0, bf_offset |-> 0, bf_size |-> 0, creator |-> 0 ]

RootNode == [Node(SegROOT, "ROOT", 0) EXCEPT !.installed = TRUE]

Ret(S, e) == [S EXCEPT !.ret = e]
Panic(S) == Ret(S, "panic")
Ok(S) == S.ret = "LAI_ERROR_NONE"

\* the invocation the interpreter is executing: that of the innermost context
\* with one, 0 while a table is loaded
CurInv(S) ==
    LET c == {i \in 1..Len(S.ctxstack) : S.ctxstack[i].invocation.present} IN
    IF c = {} THEN 0
    ELSE S.ctxstack[CHOOSE i \in c : \A j \in c : j <= i].invocation.id

\* history of the run: parsed opcodes, loop predicates, method exits
Log(S, e, pc, x) ==
    [S EXCEPT !.log = Append(@, [e |-> e, pc |-> pc, x |-> x, inv |-> CurInv(S)])]

\* method[pc]
CodeAt(S, base, pc) == S.code[base + pc + 1]

\* lai_amlname_parse for the names of the modelled tables: an optional root
\* or parent prefix, then the null name or one segment
RECURSIVE CountParents(_, _, _)
CountParents(S, base, pc) ==
    IF CodeAt(S, base, pc) = PARENT_CHAR THEN 1 + CountParents(S, base, pc + 1) ELSE 0

lai_amlname_parse(S, base, pc) ==
    LET abs == CodeAt(S, base, pc) = ROOT_CHAR
        height == IF abs THEN 0 ELSE CountParents(S, base, pc)
        p == pc + (IF abs THEN 1 ELSE height)
        null == CodeAt(S, base, p) = 0
    IN  [ is_absolute |-> abs, height |-> height,
          segs |-> IF null THEN <<>> ELSE <<[i \in 1..4 |-> CodeAt(S, base, p + i - 1)]>>,
          size |-> (p - pc) + (IF null THEN 1 ELSE 4),
          search_scopes |-> ~abs /\ height = 0 /\ ~null ]

\* lai_is_name: the first byte of a name
lai_is_name(c) ==
    \/ c \in 65..90 \/ c = 95 \/ c = ROOT_CHAR \/ c = PARENT_CHAR
    \/ c = 46 \/ c = 47

\* lai_ns_get_child: the installed child of a scope with that name, 0 if none
NsChild(nodes, scope, seg) ==
    LET c == {i \in 1..Len(nodes) :
                nodes[i].installed /\ nodes[i].parent = scope /\ nodes[i].name = seg}
    IN  IF c = {} THEN 0 ELSE CHOOSE i \in c : TRUE

RECURSIVE NsUp(_, _, _)
NsUp(nodes, scope, n) ==
    IF n = 0 \/ nodes[scope].parent = 0 THEN scope ELSE NsUp(nodes, nodes[scope].parent, n - 1)

RECURSIVE NsSearch(_, _, _)
NsSearch(nodes, scope, seg) ==
    LET c == NsChild(nodes, scope, seg) IN
    IF c # 0 THEN c
    ELSE IF nodes[scope].parent = 0 THEN 0
    ELSE NsSearch(nodes, nodes[scope].parent, seg)

\* lai_do_resolve(ctx_handle, amln): 0 is the null handle
lai_do_resolve(nodes, ctx_handle, amln) ==
    IF amln.search_scopes THEN NsSearch(nodes, ctx_handle, amln.segs[1])
    ELSE LET from == IF amln.is_absolute THEN 1 ELSE NsUp(nodes, ctx_handle, amln.height)
         IN  IF amln.segs = <<>> THEN from ELSE NsChild(nodes, from, amln.segs[1])

\* lai_do_resolve_new_node(node, ctx_handle, amln): names the node and sets
\* its parent
lai_do_resolve_new_node(nodes, node, ctx_handle, amln) ==
    [node EXCEPT !.parent = IF amln.is_absolute THEN 1
                            ELSE NsUp(nodes, ctx_handle, amln.height),
                 !.name = amln.segs[1]]

\* lai_install_nsnode: [nodes, handle, err]; a name already installed in the
\* scope is refused
lai_install_nsnode(nodes, node) ==
    IF NsChild(nodes, node.parent, node.name) # 0
    THEN [nodes |-> nodes, handle |-> 0, err |-> "LAI_ERROR_NO_SUCH_NODE"]
    ELSE [nodes |-> Append(nodes, [node EXCEPT !.installed = TRUE]),
          handle |-> Len(nodes) + 1, err |-> "LAI_ERROR_NONE"]

lai_uninstall_nsnode(nodes, handle) == [nodes EXCEPT ![handle].installed = FALSE]

(***************************************************************************)
(* Stack operations of core/exec_impl.h.                                   *)
(***************************************************************************)
lai_exec_push_ctxstack(S, c) == [S EXCEPT !.ctxstack = Push(@, c)]

\* finalizes the arguments and locals of the invocation, then frees it
RECURSIVE FinalizeVars(_, _)
FinalizeVars(h, vs) ==
    IF vs = <<>> THEN h ELSE FinalizeVars(lai_var_finalize(h, Head(vs)), Tail(vs))

\* the context item is left on the stack
lai_exec_keep_ctxstack(S) == S

lai_exec_pop_ctxstack_back(S) ==
    LET inv == Top(S.ctxstack).invocation IN
    [S EXCEPT !.ctxstack = Pop(@),
              !.heap = IF inv.present THEN FinalizeVars(FinalizeVars(@, inv.arg), inv.local)
                       ELSE @]

lai_exec_push_blkstack(S, pc, limit) ==
    [S EXCEPT !.blkstack = Push(@, [pc |-> pc, limit |-> limit])]
lai_exec_keep_blkstack(S) == S
lai_exec_pop_blkstack_back(S) == [S EXCEPT !.blkstack = Pop(@)]

lai_exec_push_stack(S, item) == [S EXCEPT !.stack = Push(@, item)]
lai_exec_pop_stack_back(S) == [S EXCEPT !.stack = Pop(@)]
\* lai_exec_peek_stack(state, n): the index of the n-th item from the top,
\* 0 for the null pointer
lai_exec_peek_stack(S, n) == IF Len(S.stack) - n >= 1 THEN Len(S.stack) - n ELSE 0

lai_exec_push_opstack(S, operand) == [S EXCEPT !.opstack = Push(@, operand)]
\* lai_exec_get_opstack(state, n), n counted from the bottom
lai_exec_get_opstack(S, n) == S.opstack[n + 1]

RECURSIVE lai_exec_pop_opstack(_, _)
lai_exec_pop_opstack(S, n) ==
    IF n = 0 THEN S
    ELSE LET operand == Top(S.opstack) IN
         lai_exec_pop_opstack(
            [S EXCEPT !.opstack = Pop(@),
                      !.heap = IF operand.tag = "LAI_OPERAND_OBJECT"
                               THEN lai_var_finalize(@, operand.object) ELSE @],
            n - 1)
lai_exec_pop_opstack_back(S) == lai_exec_pop_opstack(S, 1)

lai_exec_commit_pc(S, pc) == [S EXCEPT !.blkstack[Len(S.blkstack)].pc = pc]

\* pops m Condition/Loop items with their blocks
RECURSIVE PopNested(_, _)
PopNested(S, m) ==
    IF m = 0 THEN S
    ELSE IF Top(S.stack).kind \notin {"LAI_COND_STACKITEM", "LAI_LOOP_STACKITEM"} THEN Panic(S)
    ELSE PopNested(lai_exec_pop_stack_back(lai_exec_pop_blkstack_back(S)), m - 1)

(***************************************************************************)
(* Operand access (declared in core/exec_impl.h).  Results are [h, v, err].*)
(***************************************************************************)
lai_exec_get_objectref(S, src) ==
    IF src.tag # "LAI_OPERAND_OBJECT" THEN Res(S.heap, NoVar, "panic")
    ELSE lai_var_assign(S.heap, NoVar, src.object)

lai_exec_get_integer(S, src) ==
    LET r == lai_exec_get_objectref(S, src) IN
    IF r.err = "panic" THEN r
    ELSE IF r.v.type # "integer"
    THEN Res(lai_var_finalize(r.h, r.v), NoVar, "LAI_ERROR_TYPE_MISMATCH")
    ELSE r

\* the value of a byte-sized buffer field
ReadByteField(S, node) == IntVar(U64(S.heap[node.bf_buffer].bytes[node.bf_offset \div 8 + 1]))

lai_exec_access(S, handle) ==
    LET node == S.nodes[handle] IN
    CASE node.type = "NAME" -> lai_var_assign(S.heap, NoVar, node.object)
      [] node.type = "BUFFER_FIELD" -> Res(S.heap, ReadByteField(S, node), "LAI_ERROR_NONE")
      [] OTHER -> Res(S.heap, NoVar, "panic")

lai_operand_load(S, src) ==
    LET inv == Top(S.ctxstack).invocation IN
    CASE src.tag = "LAI_ARG_NAME" /\ inv.present ->
            lai_var_assign(S.heap, NoVar, inv.arg[src.index + 1])
      [] src.tag = "LAI_LOCAL_NAME" /\ inv.present ->
            lai_var_assign(S.heap, NoVar, inv.local[src.index + 1])
      [] src.tag = "LAI_RESOLVED_NAME" /\ src.handle # 0 -> lai_exec_access(S, src.handle)
      [] OTHER -> Res(S.heap, NoVar, "panic")

\* lai_operand_mutate(state, dest, value): the state after the store
lai_operand_mutate(S, dest, value) ==
    LET c == Len(S.ctxstack)
        inv == S.ctxstack[c].invocation
    IN
    CASE dest.tag = "LAI_NULL_NAME" -> S
      [] dest.tag = "LAI_LOCAL_NAME" /\ inv.present ->
            LET r == lai_var_assign(S.heap, inv.local[dest.index + 1], value) IN
            [S EXCEPT !.heap = r.h, !.ctxstack[c].invocation.local[dest.index + 1] = r.v]
      [] dest.tag = "LAI_ARG_NAME" /\ inv.present ->
            LET r == lai_var_assign(S.heap, inv.arg[dest.index + 1], value) IN
            [S EXCEPT !.heap = r.h, !.ctxstack[c].invocation.arg[dest.index + 1] = r.v]
      [] dest.tag = "LAI_RESOLVED_NAME" /\ dest.handle # 0
            /\ S.nodes[dest.handle].type = "NAME" ->
            LET r == lai_var_assign(S.heap, S.nodes[dest.handle].object, value) IN
            [S EXCEPT !.heap = r.h, !.nodes[dest.handle].object = r.v]
      [] OTHER -> Panic(S)

\* lai_parse_varint: [fail, value, pc]
lai_parse_varint(S, base, pc, limit) ==
    IF pc + 1 > limit THEN [fail |-> TRUE, value |-> 0, pc |-> pc]
    ELSE LET b0 == CodeAt(S, base, pc)
             sz == (b0 \div 64) % 4
         IN  IF sz = 0 THEN [fail |-> FALSE, value |-> b0 % 64, pc |-> pc + 1]
             ELSE IF pc + 1 + sz > limit THEN [fail |-> TRUE, value |-> 0, pc |-> pc]
             ELSE [fail |-> FALSE,
                   value |-> (b0 % 16)
                             + CodeAt(S, base, pc + 1) * 16
                             + (IF sz >= 2 THEN CodeAt(S, base, pc + 2) * 4096 ELSE 0)
                             + (IF sz >= 3 THEN CodeAt(S, base, pc + 3) * 1048576 ELSE 0),
                   pc |-> pc + 1 + sz]

\* lai_parse_u8: [fail, value, pc]
lai_parse_u8(S, base, pc, limit) ==
    IF pc + 1 > limit THEN [fail |-> TRUE, value |-> 0, pc |-> pc]
    ELSE [fail |-> FALSE, value |-> CodeAt(S, base, pc), pc |-> pc + 1]

(***************************************************************************)
(* lai_exec_parse: parses one opcode or name at the pc of the top block.   *)
(***************************************************************************)
LAI_DATA_MODE == 1
LAI_OBJECT_MODE == 2
LAI_EXEC_MODE == 3
LAI_UNRESOLVED_MODE == 4
LAI_REFERENCE_MODE == 5
LAI_OPTIONAL_REFERENCE_MODE == 6

\* lai_mode_flags
MF_RESULT(mode) == mode # LAI_EXEC_MODE
MF_RESOLVE(mode) == mode \in {LAI_EXEC_MODE, LAI_OBJECT_MODE, LAI_REFERENCE_MODE,
                              LAI_OPTIONAL_REFERENCE_MODE}
MF_NULLABLE(mode) == mode = LAI_OPTIONAL_REFERENCE_MODE
MF_INVOKE(mode) == mode \in {LAI_EXEC_MODE, LAI_OBJECT_MODE}

\* what lai_exec_parse reads from the top context and block: P.pc is the pc
\* behind the opcode
ParseFrame(S, mode) ==
    LET ctxitem == Top(S.ctxstack)
        block == Top(S.blkstack)
    IN  [ mode |-> mode, base |-> ctxitem.code, ctx_handle |-> ctxitem.handle,
          invocation |-> ctxitem.invocation, opcode_pc |-> block.pc,
          pc |-> block.pc + 1, limit |-> block.limit,
          opcode |-> CodeAt(S, ctxitem.code, block.pc), want_result |-> MF_RESULT(mode) ]

\* links a node installed under an invocation to its per_method_list
LinkPerMethod(S, handle) ==
    LET c == Len(S.ctxstack) IN
    IF S.ctxstack[c].invocation.present
    THEN [S EXCEPT !.ctxstack[c].invocation.per_method_list = Append(@, handle)]
    ELSE S

\* the name branch of lai_exec_parse
ParseName(S, P) ==
    LET amln == lai_amlname_parse(S, P.base, P.opcode_pc)
        T == lai_exec_commit_pc(S, P.opcode_pc + amln.size)
        handle == lai_do_resolve(S.nodes, P.ctx_handle, amln)
    IN
    IF P.mode = LAI_DATA_MODE
    THEN lai_exec_push_opstack(T, [ObjectOperand([NoVar EXCEPT !.type = "lazy_handle"])
                                      EXCEPT !.unres_ctx_handle = P.ctx_handle,
                                             !.unres_aml = P.base + P.opcode_pc])
    ELSE IF ~MF_RESOLVE(P.mode)
    THEN IF P.want_result
         THEN lai_exec_push_opstack(T, [Operand("LAI_UNRESOLVED_NAME")
                                          EXCEPT !.unres_ctx_handle = P.ctx_handle,
                                                 !.unres_aml = P.base + P.opcode_pc])
         ELSE T
    ELSE IF handle = 0
    THEN IF MF_NULLABLE(P.mode)
         THEN IF P.want_result
              THEN lai_exec_push_opstack(T, Operand("LAI_RESOLVED_NAME"))
              ELSE T
         ELSE Ret(T, "LAI_ERROR_UNEXPECTED_RESULT")
    ELSE IF S.nodes[handle].type = "METHOD" /\ MF_INVOKE(P.mode)
    THEN lai_exec_push_opstack(
            lai_exec_push_stack(T,
                [Item("LAI_INVOKE_STACKITEM") EXCEPT
                    !.opstack_frame = Len(T.opstack),
                    !.ivk_argc = S.nodes[handle].method_flags % (METHOD_ARGC_MASK + 1),
                    !.want_result = P.want_result]),
            [Operand("LAI_RESOLVED_NAME") EXCEPT !.handle = handle])
    ELSE IF MF_INVOKE(P.mode)
    THEN LET r == lai_exec_access(T, handle) IN
         IF r.err = "panic" THEN Panic(T)
         ELSE IF P.want_result
         THEN lai_exec_push_opstack([T EXCEPT !.heap = r.h], ObjectOperand(r.v))
         ELSE [T EXCEPT !.heap = lai_var_finalize(r.h, r.v)]
    ELSE IF P.want_result
    THEN lai_exec_push_opstack(T, [Operand("LAI_RESOLVED_NAME") EXCEPT !.handle = handle])
    ELSE T

\* Zero, One, Ones and the byte prefix
ParseInteger(S, P, pc, value) ==
    LET T == lai_exec_commit_pc(S, pc) IN
    IF P.mode \in {LAI_DATA_MODE, LAI_OBJECT_MODE}
    THEN lai_exec_push_opstack(T, ObjectOperand(IntVar(value)))
    ELSE IF P.opcode = ZERO_OP
            /\ P.mode \in {LAI_REFERENCE_MODE, LAI_OPTIONAL_REFERENCE_MODE}
    THEN lai_exec_push_opstack(T, Operand("LAI_NULL_NAME"))
    ELSE IF P.mode = LAI_EXEC_MODE THEN T
    ELSE Panic(T)

ParseBytePrefix(S, P) ==
    LET b == lai_parse_u8(S, P.base, P.pc, P.limit) IN
    IF b.fail THEN Ret(S, "LAI_ERROR_EXECUTION_FAILURE")
    ELSE ParseInteger(S, P, b.pc, U64(b.value))

\* the string literal: the characters up to the NUL, which must come before
\* the limit of the block
RECURSIVE StringLength(_, _, _, _, _)
StringLength(S, base, pc, limit, n) ==
    IF pc + n < limit /\ CodeAt(S, base, pc + n) # 0
    THEN StringLength(S, base, pc, limit, n + 1)
    ELSE n

ParseString(S, P) ==
    LET n == StringLength(S, P.base, P.pc, P.limit, 0)
        T == lai_exec_commit_pc(S, P.pc + n + 1)
        r == lai_create_string(T.heap, n)
    IN
    IF P.pc + n = P.limit THEN Panic(S)
    ELSE IF P.mode \in {LAI_DATA_MODE, LAI_OBJECT_MODE}
    THEN IF r.err # "LAI_ERROR_NONE" THEN Panic(T)
         ELSE lai_exec_push_opstack(
                [T EXCEPT !.heap = [r.h EXCEPT ![r.v.ptr].bytes =
                    Memcpy(@, [i \in 1..n |-> CodeAt(S, P.base, P.pc + i - 1)], n)]],
                ObjectOperand(r.v))
    ELSE IF P.mode = LAI_EXEC_MODE THEN T
    ELSE Panic(T)

\* the two-byte opcodes: the prefix must not be the last byte of the block
ParseExtOp(S, P) ==
    IF P.opcode_pc + 1 = P.limit THEN Panic(S)
    ELSE IF CodeAt(S, P.base, P.pc) = REVISION_OP
    THEN ParseInteger(S, P, P.pc + 1, U64(LAI_REVISION))
    ELSE Panic(S)

\* Arg0..Arg6 and Local0..Local7
ParseArgLocal(S, P, isArg, index) ==
    LET T == lai_exec_commit_pc(S, P.pc) IN
    IF P.mode \in {LAI_REFERENCE_MODE, LAI_OPTIONAL_REFERENCE_MODE}
    THEN lai_exec_push_opstack(T,
            [Operand(IF isArg THEN "LAI_ARG_NAME" ELSE "LAI_LOCAL_NAME")
                EXCEPT !.index = index])
    ELSE IF P.mode # LAI_OBJECT_MODE \/ ~P.invocation.present THEN Panic(T)
    ELSE LET r == lai_var_assign(T.heap, NoVar,
                      IF isArg THEN P.invocation.arg[index + 1]
                      ELSE P.invocation.local[index + 1])
         IN  lai_exec_push_opstack([T EXCEPT !.heap = r.h], ObjectOperand(r.v))

\* opcodes that push a Node or Op item
ParseItem(S, P, kind, modes) ==
    lai_exec_push_stack(lai_exec_commit_pc(S, P.pc),
        [Item(kind) EXCEPT !.op_opcode = P.opcode, !.opstack_frame = Len(S.opstack),
                           !.op_arg_modes = modes,
                           !.want_result = (kind = "LAI_OP_STACKITEM" /\ P.want_result)])

ParseReturn(S, P) ==
    lai_exec_push_stack(lai_exec_commit_pc(S, P.pc),
        [Item("LAI_RETURN_STACKITEM") EXCEPT !.opstack_frame = Len(S.opstack)])

\* the search of Continue and Break for the nearest Loop item: the number of
\* items above it, -1 where the code panics
RECURSIVE FindLoop(_, _)
FindLoop(S, m) ==
    LET i == lai_exec_peek_stack(S, m) IN
    IF i = 0 THEN -1
    ELSE IF S.stack[i].kind = "LAI_LOOP_STACKITEM" THEN m
    ELSE IF S.stack[i].kind # "LAI_COND_STACKITEM" THEN -1
    ELSE FindLoop(S, m + 1)

ParseWhile(S, P) ==
    LET v == lai_parse_varint(S, P.base, P.pc, P.limit) IN
    IF v.fail THEN Ret(S, "LAI_ERROR_EXECUTION_FAILURE")
    ELSE LET end == P.opcode_pc + 1 + v.value
             T == lai_exec_push_blkstack(lai_exec_commit_pc(S, end), v.pc, end)
         IN  lai_exec_push_stack(T,
                [Item("LAI_LOOP_STACKITEM") EXCEPT !.opstack_frame = Len(S.opstack),
                                                   !.state = 0, !.loop_pred = v.pc])

\* history: a Break or Continue met with m items above the nearest loop,
\* whose package spans the bytes from pc to limit
LoopEvent(S, e, m) ==
    Log(S, e, Top(S.ctxstack).code + S.stack[Len(S.stack) - m].loop_pred,
        [limit |-> Top(S.ctxstack).code + S.blkstack[Len(S.blkstack) - m].limit, m |-> m])

\* faulty variant of ParseContinue: the loop is left
ParseContinueLeave(S, P) ==
    LET m == FindLoop(S, 0) IN
    IF m < 0 THEN Panic(S)
    ELSE LET T == PopNested(LoopEvent(S, "continue", m), m) IN
         IF ~Ok(T) THEN T ELSE lai_exec_pop_stack_back(lai_exec_pop_blkstack_back(T))

ParseContinue(S, P) ==
    LET m == FindLoop(S, 0) IN
    IF m < 0 THEN Panic(S)
    ELSE LET T == PopNested(LoopEvent(S, "continue", m), m) IN
         IF ~Ok(T) THEN T ELSE lai_exec_commit_pc(T, Top(T.blkstack).limit)

\* faulty variant of ParseBreak: only the innermost item is popped
ParseBreakInnermost(S, P) ==
    LET m == FindLoop(S, 0) IN
    IF m < 0 THEN Panic(S)
    ELSE lai_exec_pop_stack_back(lai_exec_pop_blkstack_back(LoopEvent(S, "break", m)))

ParseBreak(S, P) ==
    LET m == FindLoop(S, 0) IN
    IF m < 0 THEN Panic(S)
    ELSE LET T == PopNested(LoopEvent(S, "break", m), m) IN
         IF ~Ok(T) THEN T ELSE lai_exec_pop_stack_back(lai_exec_pop_blkstack_back(T))

ParseIf(S, P) ==
    LET v == lai_parse_varint(S, P.base, P.pc, P.limit) IN
    IF v.fail THEN Ret(S, "LAI_ERROR_EXECUTION_FAILURE")
    ELSE
    LET if_end == P.opcode_pc + 1 + v.value
        has_else == if_end < P.limit /\ CodeAt(S, P.base, if_end) = ELSE_OP
        e == IF has_else THEN lai_parse_varint(S, P.base, if_end + 1, P.limit)
             ELSE [fail |-> FALSE, value |-> 0, pc |-> 0]
        else_limit == P.opcode_pc + 1 + v.value + 1 + e.value
    IN
    IF e.fail THEN Ret(S, "LAI_ERROR_EXECUTION_FAILURE")
    ELSE LET T == lai_exec_push_blkstack(
                    lai_exec_commit_pc(S, IF has_else THEN else_limit ELSE if_end),
                    v.pc, if_end)
         IN  lai_exec_push_stack(T,
                [Item("LAI_COND_STACKITEM") EXCEPT
                    !.opstack_frame = Len(S.opstack), !.state = 0,
                    !.cond_has_else = has_else, !.cond_else_pc = e.pc,
                    !.cond_else_limit = else_limit])

ParseBuffer(S, P) ==
    LET v == lai_parse_varint(S, P.base, P.pc, P.limit) IN
    IF v.fail THEN Ret(S, "LAI_ERROR_EXECUTION_FAILURE")
    ELSE LET end == P.opcode_pc + 1 + v.value
             T == lai_exec_push_blkstack(lai_exec_commit_pc(S, end), v.pc, end)
         IN  lai_exec_push_stack(T,
                [Item("LAI_BUFFER_STACKITEM") EXCEPT !.opstack_frame = Len(S.opstack),
                                                     !.want_result = P.want_result])

ParseScope(S, P) ==
    LET v == lai_parse_varint(S, P.base, P.pc, P.limit) IN
    IF v.fail THEN Ret(S, "LAI_ERROR_EXECUTION_FAILURE")
    ELSE
    LET amln == lai_amlname_parse(S, P.base, v.pc)
        nested_pc == v.pc + amln.size
        end == P.opcode_pc + 1 + v.value
        T == lai_exec_commit_pc(S, end)
        scoped_ctx_handle == lai_do_resolve(S.nodes, P.ctx_handle, amln)
    IN
    IF scoped_ctx_handle = 0 THEN Ret(T, "LAI_ERROR_UNEXPECTED_RESULT")
    ELSE lai_exec_push_stack(
            lai_exec_push_blkstack(
                lai_exec_push_ctxstack(T, [code |-> P.base, handle |-> scoped_ctx_handle,
                                           invocation |-> NoInvocation]),
                nested_pc, end),
            Item("LAI_POPULATE_STACKITEM"))

ParseMethod(S, P) ==
    LET v == lai_parse_varint(S, P.base, P.pc, P.limit) IN
    IF v.fail THEN Ret(S, "LAI_ERROR_EXECUTION_FAILURE")
    ELSE
    LET amln == lai_amlname_parse(S, P.base, v.pc)
        f == lai_parse_u8(S, P.base, v.pc + amln.size, P.limit)
        end == P.opcode_pc + 1 + v.value
        T == lai_exec_commit_pc(S, end)
        node == [lai_do_resolve_new_node(S.nodes, Node(<<>>, "METHOD", 0),
                                         P.ctx_handle, amln)
                    EXCEPT !.method_flags = f.value, !.pointer = P.base + f.pc,
                           !.size = end - f.pc, !.creator = CurInv(S)]
        r == lai_install_nsnode(S.nodes, node)
    IN
    IF f.fail THEN Ret(S, "LAI_ERROR_EXECUTION_FAILURE")
    ELSE IF r.err # "LAI_ERROR_NONE" THEN Ret(T, r.err)
    ELSE LinkPerMethod([T EXCEPT !.nodes = r.nodes], r.handle)

lai_exec_parse(S0, parse_mode) ==
    LET P == ParseFrame(S0, parse_mode)
        S == Log(S0, "parse", P.base + P.opcode_pc, P.opcode)
        op == P.opcode
    IN
    IF ~(P.opcode_pc < P.limit) THEN Panic(S0)
    ELSE IF lai_is_name(op) THEN ParseName(S, P)
    ELSE
    CASE op = NOP_OP -> lai_exec_commit_pc(S, P.pc)
      [] op = ZERO_OP -> ParseInteger(S, P, P.pc, U64Zero)
      [] op = ONE_OP -> ParseInteger(S, P, P.pc, U64(1))
      [] op = ONES_OP -> ParseInteger(S, P, P.pc, U64Ones)
      [] op = BYTEPREFIX -> ParseBytePrefix(S, P)
      [] op = STRINGPREFIX -> ParseString(S, P)
      [] op = EXTOP_PREFIX -> ParseExtOp(S, P)
      [] op = BUFFER_OP -> ParseBuffer(S, P)
      [] op = RETURN_OP -> ParseReturn(S, P)
      [] op = WHILE_OP -> ParseWhile(S, P)
      [] op = CONTINUE_OP -> ParseContinue(S, P)
      [] op = BREAK_OP -> ParseBreak(S, P)
      [] op = IF_OP -> ParseIf(S, P)
      [] op = ELSE_OP -> Panic(S)
      [] op = SCOPE_OP -> ParseScope(S, P)
      [] op = METHOD_OP -> ParseMethod(S, P)
      [] op = NAME_OP ->
            ParseItem(S, P, "LAI_NODE_STACKITEM", <<LAI_UNRESOLVED_MODE, LAI_OBJECT_MODE, 0>>)
      [] op = BYTEFIELD_OP ->
            ParseItem(S, P, "LAI_NODE_STACKITEM",
                      <<LAI_REFERENCE_MODE, LAI_OBJECT_MODE, LAI_UNRESOLVED_MODE, 0>>)
      [] op \in ARG0_OP..(ARG0_OP + 6) -> ParseArgLocal(S, P, TRUE, op - ARG0_OP)
      [] op \in LOCAL0_OP..(LOCAL0_OP + 7) -> ParseArgLocal(S, P, FALSE, op - LOCAL0_OP)
      [] op = STORE_OP ->
            ParseItem(S, P, "LAI_OP_STACKITEM", <<LAI_OBJECT_MODE, LAI_REFERENCE_MODE, 0>>)
      [] op \in {ADD_OP, SUBTRACT_OP} ->
            ParseItem(S, P, "LAI_OP_STACKITEM",
                      <<LAI_OBJECT_MODE, LAI_OBJECT_MODE, LAI_REFERENCE_MODE, 0>>)
      [] op = DIVIDE_OP ->
            ParseItem(S, P, "LAI_OP_STACKITEM",
                      <<LAI_OBJECT_MODE, LAI_OBJECT_MODE, LAI_REFERENCE_MODE,
                        LAI_REFERENCE_MODE, 0>>)
      [] op \in {INCREMENT_OP, DECREMENT_OP} ->
            ParseItem(S, P, "LAI_OP_STACKITEM", <<LAI_REFERENCE_MODE, 0>>)
      [] op = LNOT_OP -> ParseItem(S, P, "LAI_OP_STACKITEM", <<LAI_OBJECT_MODE, 0>>)
      [] op = LEQUAL_OP ->
            ParseItem(S, P, "LAI_OP_STACKITEM", <<LAI_OBJECT_MODE, LAI_OBJECT_MODE, 0>>)
      [] OTHER -> Panic(S)

(***************************************************************************)
(* lai_exec_reduce_node and lai_exec_reduce_op.                            *)
(***************************************************************************)
U64ToNat(a) == a[1] + a[2] * Limb

\* lai_exec_reduce_node: the state after the declaration, ret its result
lai_exec_reduce_node(S, opcode, frame, ctx_handle) ==
    LET operands == [i \in 1..(Len(S.opstack) - frame) |-> S.opstack[frame + i]]
        creator == CurInv(S)
    IN
    CASE opcode = NAME_OP ->
            LET o == lai_exec_get_objectref(S, operands[2])
                amln == lai_amlname_parse(S, 0, operands[1].unres_aml)
                node == [lai_do_resolve_new_node(S.nodes, Node(<<>>, "NAME", 0),
                                                 ctx_handle, amln)
                            EXCEPT !.object = o.v, !.creator = creator]
                r == lai_install_nsnode(S.nodes, node)
            IN  IF o.err = "panic" \/ operands[1].tag # "LAI_UNRESOLVED_NAME" THEN Panic(S)
                ELSE IF r.err # "LAI_ERROR_NONE" THEN Ret([S EXCEPT !.heap = o.h], r.err)
                ELSE LinkPerMethod([S EXCEPT !.heap = o.h, !.nodes = r.nodes], r.handle)
      [] opcode = BYTEFIELD_OP ->
            LET offset == lai_exec_get_integer(S, operands[2])
                amln == lai_amlname_parse(S, 0, operands[3].unres_aml)
                buf == lai_operand_load([S EXCEPT !.heap = offset.h], operands[1])
                node == [lai_do_resolve_new_node(S.nodes, Node(<<>>, "BUFFER_FIELD", 0),
                                                 operands[3].unres_ctx_handle, amln)
                            EXCEPT !.bf_buffer = buf.v.ptr, !.bf_size = 8,
                                   !.bf_offset = U64ToNat(offset.v.integer) * 8,
                                   !.creator = creator]
                r == lai_install_nsnode(S.nodes, node)
                \* the node's reference is taken, the loaded variable dropped
                h == lai_var_finalize(lai_rc_ref(buf.h, buf.v.ptr), buf.v)
            IN  IF offset.err = "panic" THEN Panic(S)
                ELSE IF offset.err # "LAI_ERROR_NONE" THEN Ret([S EXCEPT !.heap = offset.h], offset.err)
                ELSE IF operands[3].tag # "LAI_UNRESOLVED_NAME" THEN Panic(S)
                ELSE IF buf.err = "panic" \/ buf.v.type # "buffer" THEN Panic(S)
                ELSE IF r.err # "LAI_ERROR_NONE" THEN Ret([S EXCEPT !.heap = h], r.err)
                ELSE LinkPerMethod([S EXCEPT !.heap = h, !.nodes = r.nodes], r.handle)
      [] OTHER -> Panic(S)

\* lai_obj_exec_match_op(MATCH_MEQ, ...) on integers: [err, out]
lai_obj_exec_match_op(var, o) ==
    IF var.type = "integer" /\ o.type = "integer"
    THEN [err |-> "LAI_ERROR_NONE", out |-> var.integer = o.integer]
    ELSE [err |-> "LAI_ERROR_UNEXPECTED_RESULT", out |-> FALSE]

OpRes(S, v, err) == [S |-> S, v |-> v, err |-> err]

\* an operation on two integer operands whose result goes to a target
ReduceBinary(S, operands, f(_, _)) ==
    LET lhs == lai_exec_get_integer(S, operands[1])
        rhs == lai_exec_get_integer(S, operands[2])
    IN  IF lhs.err # "LAI_ERROR_NONE" THEN OpRes(S, NoVar, lhs.err)
        ELSE IF rhs.err # "LAI_ERROR_NONE" THEN OpRes(S, NoVar, rhs.err)
        ELSE LET result == IntVar(f(lhs.v.integer, rhs.v.integer))
                 T == lai_operand_mutate(S, operands[3], result)
             IN  OpRes(T, result, T.ret)

\* a < b as unsigned 64-bit integers
U64Less(a, b) == \E i \in 1..4 : a[i] < b[i] /\ \A j \in (i + 1)..4 : a[j] = b[j]

\* bit i of a
U64Bit(a, i) == (a[(i \div 16) + 1] \div (2 ^ (i % 16))) % 2

\* a / b and a % b of unsigned 64-bit integers, b # 0, by long division from bit i
\* downwards: [q, r]
RECURSIVE U64DivLoop(_, _, _, _, _)
U64DivLoop(a, b, i, q, r) ==
    IF i < 0 THEN [q |-> q, r |-> r]
    ELSE LET carry == r[4] >= Limb \div 2
             shifted == U64AddC(r, r, U64Bit(a, i))
             fits == carry \/ ~U64Less(shifted, b)
         IN  U64DivLoop(a, b, i - 1, U64AddC(q, q, IF fits THEN 1 ELSE 0),
                        IF fits THEN U64Sub(shifted, b) ELSE shifted)

\* the highest bit set in a, -1 for 0: the bits above it contribute nothing
U64TopBit(a) ==
    LET set == {i \in 0..63 : U64Bit(a, i) = 1} IN
    IF set = {} THEN -1 ELSE CHOOSE i \in set : \A j \in set : j <= i

U64Div(a, b) == U64DivLoop(a, b, U64TopBit(a), U64Zero, U64Zero)

\* case DIVIDE_OP: the remainder and the quotient go to their targets, result is
\* left as it was initialized; a zero divisor traps in the division
ReduceDivide(S, operands) ==
    LET lhs == lai_exec_get_integer(S, operands[1])
        rhs == lai_exec_get_integer(S, operands[2])
    IN  IF lhs.err # "LAI_ERROR_NONE" THEN OpRes(S, NoVar, lhs.err)
        ELSE IF rhs.err # "LAI_ERROR_NONE" THEN OpRes(S, NoVar, rhs.err)
        ELSE IF rhs.v.integer = U64Zero THEN OpRes(S, NoVar, "panic")
        ELSE LET d == U64Div(lhs.v.integer, rhs.v.integer)
                 mod == IntVar(d.r)
                 div == IntVar(d.q)
                 T == lai_operand_mutate(S, operands[3], mod)
                 U == lai_operand_mutate(T, operands[4], div)
             IN  IF T.ret # "LAI_ERROR_NONE" THEN OpRes(T, NoVar, T.ret)
                 ELSE OpRes(U, NoVar, U.ret)

\* Increment and Decrement: load, check the type, store back
ReduceStep(S, operands, f(_, _)) ==
    LET l == lai_operand_load(S, operands[1]) IN
    IF l.err = "panic" \/ l.v.type # "integer"
    THEN OpRes(S, NoVar, "panic")
    ELSE LET result == IntVar(f(l.v.integer, U64(1)))
             T == lai_operand_mutate([S EXCEPT !.heap = l.h], operands[1], result)
         IN  OpRes(T, result, T.ret)

\* lai_exec_reduce_op: [S, v, err], v the reduction result
lai_exec_reduce_op(S, opcode, frame) ==
    LET operands == [i \in 1..(Len(S.opstack) - frame) |-> S.opstack[frame + i]] IN
    CASE opcode = STORE_OP ->
            LET objectref == lai_exec_get_objectref(S, operands[1])
                result == lai_obj_clone(objectref.h, NoVar, objectref.v)
                out == lai_obj_clone(result.h, NoVar, result.v)
                T == lai_operand_mutate([S EXCEPT !.heap = out.h], operands[2], result.v)
            IN  IF "panic" \in {objectref.err, result.err, out.err} THEN OpRes(S, NoVar, "panic")
                ELSE OpRes([T EXCEPT !.heap = lai_var_finalize(
                                                lai_var_finalize(@, objectref.v), out.v)],
                           result.v, T.ret)
      [] opcode = ADD_OP -> ReduceBinary(S, operands, U64Add)
      [] opcode = SUBTRACT_OP -> ReduceBinary(S, operands, U64Sub)
      [] opcode = DIVIDE_OP -> ReduceDivide(S, operands)
      [] opcode = INCREMENT_OP -> ReduceStep(S, operands, U64Add)
      [] opcode = DECREMENT_OP -> ReduceStep(S, operands, U64Sub)
      [] opcode = LNOT_OP ->
            LET operand == lai_exec_get_integer(S, operands[1]) IN
            IF operand.err # "LAI_ERROR_NONE" THEN OpRes(S, NoVar, operand.err)
            ELSE OpRes(S, IntVar(IF operand.v.integer = U64Zero THEN U64(1) ELSE U64Zero),
                       "LAI_ERROR_NONE")
      [] opcode = LEQUAL_OP ->
            LET lhs == lai_exec_get_objectref(S, operands[1])
                rhs == lai_exec_get_objectref([S EXCEPT !.heap = lhs.h], operands[2])
                m == lai_obj_exec_match_op(lhs.v, rhs.v)
                h == lai_var_finalize(lai_var_finalize(rhs.h, rhs.v), lhs.v)
            IN  IF "panic" \in {lhs.err, rhs.err} THEN OpRes(S, NoVar, "panic")
                ELSE IF m.err # "LAI_ERROR_NONE"
                THEN OpRes([S EXCEPT !.heap = h], NoVar, "LAI_ERROR_ILLEGAL_ARGUMENTS")
                ELSE OpRes([S EXCEPT !.heap = h],
                           IntVar(IF m.out THEN U64Ones ELSE U64Zero), "LAI_ERROR_NONE")
      [] OTHER -> OpRes(S, NoVar, "panic")

(***************************************************************************)
(* lai_exec_process: one step on the top-most item of the execution stack. *)
(***************************************************************************)
\* faulty variant of CleanPerMethod: the nodes stay installed
CleanPerMethodLeak(S) ==
    [S EXCEPT !.ctxstack[Len(S.ctxstack)].invocation.per_method_list = <<>>]

\* the clean-up of the per-method nodes of the top invocation: a buffer field
\* drops its reference on the buffer, every node is uninstalled and unlinked
RECURSIVE CleanPerMethod(_)
CleanPerMethod(S) ==
    LET c == Len(S.ctxstack)
        list == S.ctxstack[c].invocation.per_method_list
    IN
    IF list = <<>> THEN S
    ELSE LET handle == Head(list)
             node == S.nodes[handle]
             u == lai_rc_unref(S.heap, node.bf_buffer)
             h == IF node.type # "BUFFER_FIELD" THEN S.heap
                  ELSE IF u[node.bf_buffer].rc = 0
                  THEN [u EXCEPT ![node.bf_buffer] = FreePayload]
                  ELSE u
         IN  CleanPerMethod(
                [S EXCEPT !.heap = h,
                          !.nodes = lai_uninstall_nsnode(@, handle),
                          !.ctxstack[c].invocation.per_method_list = Tail(list)])

\* the search of Return for the owning Method item: the number of items
\* between them, -1 where the code panics
RECURSIVE FindMethod(_, _)
FindMethod(S, m) ==
    LET i == lai_exec_peek_stack(S, 1 + m) IN
    IF i = 0 THEN -1
    ELSE IF S.stack[i].kind = "LAI_METHOD_STACKITEM" THEN m
    ELSE IF S.stack[i].kind \notin {"LAI_COND_STACKITEM", "LAI_LOOP_STACKITEM"} THEN -1
    ELSE FindMethod(S, m + 1)

\* faulty variant of ReturnUnwind: the nested items stay on the stack
ReturnUnwindMethodOnly(S, m) ==
    lai_exec_pop_stack_back(lai_exec_pop_blkstack_back(
        lai_exec_pop_ctxstack_back(lai_exec_pop_stack_back(S))))

\* the pops of a Return: the Return item, m nested items, the Method item
ReturnUnwind(S, m) ==
    LET T == PopNested(lai_exec_pop_stack_back(S), m) IN
    IF ~Ok(T) THEN T
    ELSE lai_exec_pop_stack_back(lai_exec_pop_blkstack_back(lai_exec_pop_ctxstack_back(T)))

\* faulty variant of LoopIterationEnd: the loop is left after one iteration
LoopIterationEndExit(S) == lai_exec_pop_stack_back(lai_exec_pop_blkstack_back(S))

\* the body of a loop reached its limit: recheck the predicate
LoopIterationEnd(S) ==
    [lai_exec_commit_pc(S, Top(S.stack).loop_pred) EXCEPT !.stack[Len(S.stack)].state = 0]

ProcessPopulate(S, block) ==
    IF block.pc = block.limit
    THEN lai_exec_pop_stack_back(lai_exec_pop_ctxstack_back(lai_exec_pop_blkstack_back(S)))
    ELSE lai_exec_parse(S, LAI_EXEC_MODE)

ProcessMethod(S, item, block) ==
    IF block.pc # block.limit THEN lai_exec_parse(S, LAI_EXEC_MODE)
    ELSE IF Len(S.opstack) # 0 THEN Panic(Log(S, "implicit", 0, "panic"))
    ELSE LET T == Log(S, "implicit", 0, item.want_result)
             U == IF item.want_result
                  THEN lai_exec_push_opstack(T, ObjectOperand(IntVar(U64Zero)))
                  ELSE T
         IN  lai_exec_pop_stack_back(lai_exec_pop_ctxstack_back(
                lai_exec_pop_blkstack_back(CleanPerMethod(U))))

ProcessBuffer(S, item, block, base) ==
    LET k == Len(S.opstack) - item.opstack_frame IN
    IF k > 1 THEN Panic(S)
    ELSE IF k # 1 THEN lai_exec_parse(S, LAI_OBJECT_MODE)
    ELSE
    LET size == lai_exec_get_objectref(S, lai_exec_get_opstack(S, item.opstack_frame))
        T == lai_exec_pop_opstack_back([S EXCEPT !.heap = size.h])
        n == IF size.v.type = "integer" THEN U64ToNat(size.v.integer) ELSE 0
        result == lai_create_buffer(T.heap, n)
        initial_size == block.limit - block.pc
        bytes == [i \in 1..n |-> IF i <= initial_size THEN CodeAt(S, base, block.pc + i - 1)
                                 ELSE 0]
        U == [T EXCEPT !.heap = [result.h EXCEPT ![result.v.ptr].bytes = bytes]]
    IN
    IF size.err = "panic" \/ result.err # "LAI_ERROR_NONE" \/ initial_size > n THEN Panic(S)
    ELSE lai_exec_pop_stack_back(lai_exec_pop_blkstack_back(
            IF item.want_result THEN lai_exec_push_opstack(U, ObjectOperand(result.v))
            ELSE [U EXCEPT !.heap = lai_var_finalize(@, result.v)]))

ProcessNode(S, item, ctx_handle) ==
    LET k == Len(S.opstack) - item.opstack_frame IN
    IF item.op_arg_modes[k + 1] # 0 THEN lai_exec_parse(S, item.op_arg_modes[k + 1])
    ELSE LET T == lai_exec_reduce_node(S, item.op_opcode, item.opstack_frame, ctx_handle) IN
         IF T.ret = "panic" THEN T
         \* the result of lai_exec_reduce_node is not looked at
         ELSE lai_exec_pop_stack_back(lai_exec_pop_opstack(Ret(T, "LAI_ERROR_NONE"), k))

\* the end of ProcessOp: the operands are popped and the result r of the
\* reduction is pushed or dropped
ProcessOpResult(S, item, k, r) ==
    IF r.err # "LAI_ERROR_NONE" THEN Ret(r.S, r.err)
    ELSE lai_exec_pop_stack_back(
            IF item.want_result
            THEN lai_exec_push_opstack(lai_exec_pop_opstack(r.S, k), ObjectOperand(r.v))
            ELSE [lai_exec_pop_opstack(r.S, k) EXCEPT !.heap = lai_var_finalize(@, r.v)])

ProcessOp(S, item) ==
    LET k == Len(S.opstack) - item.opstack_frame IN
    IF item.op_arg_modes[k + 1] # 0 THEN lai_exec_parse(S, item.op_arg_modes[k + 1])
    ELSE ProcessOpResult(S, item, k,
                         lai_exec_reduce_op(S, item.op_opcode, item.opstack_frame))

\* an argument array that is not cleared: the arguments from argc on keep the
\* values of the caller's arguments
InvokeArgsInherit(S, frame, argc) ==
    [i \in 1..7 |-> IF i <= argc THEN S.opstack[frame + 1 + i].object
                    ELSE Top(S.ctxstack).invocation.arg[i]]

\* moves the operands behind the method name into the arguments of a new
\* invocation
InvokeArgs(S, frame, argc) ==
    [i \in 1..7 |-> IF i <= argc THEN S.opstack[frame + 1 + i].object ELSE NoVar]

RECURSIVE RefVars(_, _)
RefVars(h, vs) ==
    IF vs = <<>> THEN h
    ELSE RefVars(IF Head(vs).type \in HeapTypes THEN lai_rc_ref(h, Head(vs).ptr) ELSE h,
                 Tail(vs))

ProcessInvoke(S, item) ==
    LET argc == item.ivk_argc
        k == Len(S.opstack) - item.opstack_frame
    IN
    IF k > argc + 1 THEN Panic(S)
    ELSE IF k # argc + 1 THEN lai_exec_parse(S, LAI_OBJECT_MODE)
    ELSE
    LET opstack_method == lai_exec_get_opstack(S, item.opstack_frame)
        handle == opstack_method.handle
        args == InvokeArgs(S, item.opstack_frame, argc)
        \* lai_exec_get_objectref takes a reference for every argument
        T == lai_exec_pop_stack_back(
                lai_exec_pop_opstack([S EXCEPT !.heap = RefVars(@, args)], argc + 1))
        inv == [NewInvocation(S.ninv + 1) EXCEPT !.arg = args]
        U == lai_exec_push_ctxstack([T EXCEPT !.ninv = @ + 1],
                [code |-> S.nodes[handle].pointer, handle |-> handle, invocation |-> inv])
    IN
    IF opstack_method.tag # "LAI_RESOLVED_NAME" \/ handle = 0 THEN Panic(S)
    ELSE IF S.nodes[handle].type # "METHOD" THEN Panic(S)
    ELSE IF \E i \in 1..argc : S.opstack[item.opstack_frame + 1 + i].tag # "LAI_OPERAND_OBJECT"
    THEN Panic(S)
    ELSE lai_exec_push_stack(
            lai_exec_push_blkstack(U, 0, S.nodes[handle].size),
            [Item("LAI_METHOD_STACKITEM") EXCEPT !.want_result = item.want_result])

ProcessReturn(S, item) ==
    LET k == Len(S.opstack) - item.opstack_frame IN
    IF k > 1 THEN Panic(S)
    ELSE IF k # 1 THEN lai_exec_parse(S, LAI_OBJECT_MODE)
    ELSE
    LET result == lai_exec_get_objectref(S, lai_exec_get_opstack(S, item.opstack_frame))
        T == lai_exec_pop_opstack_back([S EXCEPT !.heap = result.h])
        m == FindMethod(T, 0)
        method_item == T.stack[lai_exec_peek_stack(T, 1 + m)]
        c == lai_obj_clone(T.heap, NoVar, result.v)
        U == Log(IF method_item.want_result
                 THEN lai_exec_push_opstack([T EXCEPT !.heap = c.h], ObjectOperand(c.v))
                 ELSE T,
                 "return", m, method_item.want_result)
        V == ReturnUnwind(CleanPerMethod(U), m)
    IN
    IF result.err = "panic" \/ m < 0 THEN Panic(S)
    ELSE IF method_item.want_result /\ c.err = "panic" THEN Panic(S)
    ELSE [V EXCEPT !.heap = lai_var_finalize(@, result.v)]

ProcessLoop(S, item, block) ==
    LET k == Len(S.opstack) - item.opstack_frame IN
    IF item.state # 0
    THEN IF block.pc = block.limit THEN LoopIterationEnd(S)
         ELSE lai_exec_parse(S, LAI_EXEC_MODE)
    ELSE IF k > 1 THEN Panic(S)
    ELSE IF k # 1 THEN lai_exec_parse(S, LAI_OBJECT_MODE)
    ELSE
    LET predicate == lai_exec_get_integer(S, lai_exec_get_opstack(S, item.opstack_frame))
        taken == predicate.v.integer # U64Zero
        T == Log(lai_exec_pop_opstack_back(S), "pred",
                 Top(S.ctxstack).code + item.loop_pred, taken)
    IN
    IF predicate.err # "LAI_ERROR_NONE" THEN Ret([S EXCEPT !.heap = predicate.h], predicate.err)
    ELSE IF taken THEN [T EXCEPT !.stack[Len(T.stack)].state = 1]
    ELSE lai_exec_pop_stack_back(lai_exec_pop_blkstack_back(T))

\* faulty variant: with a zero predicate and an Else, the block is not moved
\* to the Else body
ProcessCondNoSwitch(S, item, block) ==
    LET k == Len(S.opstack) - item.opstack_frame IN
    IF item.state # 0
    THEN IF block.pc = block.limit
         THEN lai_exec_pop_stack_back(lai_exec_pop_blkstack_back(S))
         ELSE lai_exec_parse(S, LAI_EXEC_MODE)
    ELSE IF k > 1 THEN Panic(S)
    ELSE IF k # 1 THEN lai_exec_parse(S, LAI_OBJECT_MODE)
    ELSE
    LET predicate == lai_exec_get_integer(S, lai_exec_get_opstack(S, item.opstack_frame))
        taken == predicate.v.integer # U64Zero
        T == lai_exec_pop_opstack_back(S)
    IN
    IF predicate.err # "LAI_ERROR_NONE" THEN Ret([S EXCEPT !.heap = predicate.h], predicate.err)
    ELSE IF taken \/ item.cond_has_else THEN [T EXCEPT !.stack[Len(T.stack)].state = 1]
    ELSE lai_exec_pop_stack_back(lai_exec_pop_blkstack_back(T))

ProcessCond(S, item, block) ==
    LET k == Len(S.opstack) - item.opstack_frame IN
    IF item.state # 0
    THEN IF block.pc = block.limit
         THEN lai_exec_pop_stack_back(lai_exec_pop_blkstack_back(S))
         ELSE lai_exec_parse(S, LAI_EXEC_MODE)
    ELSE IF k > 1 THEN Panic(S)
    ELSE IF k # 1 THEN lai_exec_parse(S, LAI_OBJECT_MODE)
    ELSE
    LET predicate == lai_exec_get_integer(S, lai_exec_get_opstack(S, item.opstack_frame))
        taken == predicate.v.integer # U64Zero
        T == lai_exec_pop_opstack_back(S)
    IN
    IF predicate.err # "LAI_ERROR_NONE" THEN Ret([S EXCEPT !.heap = predicate.h], predicate.err)
    ELSE IF taken THEN [T EXCEPT !.stack[Len(T.stack)].state = 1]
    ELSE IF item.cond_has_else
    THEN [T EXCEPT !.stack[Len(T.stack)].state = 1,
                   !.blkstack[Len(T.blkstack)] =
                        [pc |-> item.cond_else_pc, limit |-> item.cond_else_limit]]
    ELSE lai_exec_pop_stack_back(lai_exec_pop_blkstack_back(T))

lai_exec_process(S) ==
    LET item == Top(S.stack)
        ctxitem == Top(S.ctxstack)
        block == Top(S.blkstack)
    IN
    IF S.ctxstack = <<>> \/ S.blkstack = <<>> THEN Panic(S)
    ELSE IF block.pc > block.limit THEN Panic(S)
    ELSE
    CASE item.kind = "LAI_POPULATE_STACKITEM" -> ProcessPopulate(S, block)
      [] item.kind = "LAI_METHOD_STACKITEM" -> ProcessMethod(S, item, block)
      [] item.kind = "LAI_BUFFER_STACKITEM" -> ProcessBuffer(S, item, block, ctxitem.code)
      [] item.kind = "LAI_NODE_STACKITEM" -> ProcessNode(S, item, ctxitem.handle)
      [] item.kind = "LAI_OP_STACKITEM" -> ProcessOp(S, item)
      [] item.kind = "LAI_INVOKE_STACKITEM" -> ProcessInvoke(S, item)
      [] item.kind = "LAI_RETURN_STACKITEM" -> ProcessReturn(S, item)
      [] item.kind = "LAI_LOOP_STACKITEM" -> ProcessLoop(S, item, block)
      [] item.kind = "LAI_COND_STACKITEM" -> ProcessCond(S, item, block)
      [] OTHER -> Panic(S)

(***************************************************************************)
(* Tables and calls the interpreter is run on.                             *)
(***************************************************************************)
MaxCount == 3
MaxDepth == 4

Zero == <<ZERO_OP>>
One == <<ONE_OP>>
Noop == <<NOP_OP>>

\* Method(TST_, 1) { If (Arg0 == 1) { Return (0x2A) } Return (0) }
TableTST ==
    AmlMethod(SegTST, 1,
        AmlIf(AmlLEqual(AmlArg(0), One), AmlReturn(AmlByte(42))) \o AmlReturn(Zero))

\* Method(MAIN, 1) { Local0 = Arg0; Local1 = 0;
\*                   While (Local0) { Local0--; Local1++ } Return (Local1) }
TableCount ==
    AmlMethod(SegMAIN, 1,
        AmlStore(AmlArg(0), AmlLocal(0)) \o AmlStore(Zero, AmlLocal(1))
        \o AmlWhile(AmlLocal(0), AmlDecrement(AmlLocal(0)) \o AmlIncrement(AmlLocal(1)))
        \o AmlReturn(AmlLocal(1)))

\* nested While ("W"), If with a true predicate ("I") and Else of an If with
\* a false predicate ("E") around a leaf statement; the loop at depth d counts
\* Local<d> down from Arg0, Local7 counts the iterations run to their end and
\* Local6 the If bodies run to their end
RECURSIVE Nest(_, _, _)
Nest(shape, leaf, d) ==
    IF shape = <<>> THEN leaf
    ELSE CASE Head(shape) = "W" ->
                AmlStore(AmlArg(0), AmlLocal(d))
                \o AmlWhile(AmlLocal(d),
                        AmlDecrement(AmlLocal(d)) \o Nest(Tail(shape), leaf, d + 1)
                        \o AmlIncrement(AmlLocal(7)))
           [] Head(shape) = "I" ->
                AmlIf(One, Nest(Tail(shape), leaf, d + 1) \o AmlIncrement(AmlLocal(6)))
           [] OTHER ->
                AmlIf(Zero, Noop) \o AmlElse(Nest(Tail(shape), leaf, d + 1))

TableNest(shape, leaf) ==
    AmlMethod(SegMAIN, 1,
        AmlStore(Zero, AmlLocal(6)) \o AmlStore(Zero, AmlLocal(7))
        \o Nest(shape, leaf, 0)
        \o AmlReturn(AmlAdd(AmlLocal(7), AmlLocal(6))))

RECURSIVE ShapesOf(_)
ShapesOf(n) ==
    IF n = 0 THEN {<<>>}
    ELSE {<<k>> \o s : k \in {"W", "I", "E"}, s \in ShapesOf(n - 1)}
Shapes == UNION {ShapesOf(n) : n \in 1..MaxDepth}
HasLoop(shape) == \E i \in 1..Len(shape) : shape[i] = "W"

Leaves == {AmlReturn(AmlByte(7)), <<BREAK_OP>>, <<CONTINUE_OP>>, Noop}
\* Break and Continue need a loop around them
LeavesFor(shape) ==
    {l \in Leaves : l \in {<<BREAK_OP>>, <<CONTINUE_OP>>} => HasLoop(shape)}

\* bodies that end without a Return
FallBodies == {<<>>, Noop, AmlIf(One, Noop), AmlWhile(Zero, Noop)}

\* callers of FALL: as a statement, as an operand behind a pending operand,
\* as the first operand, as a statement of a method called as an operand
Callers ==
    { AmlMethod(SegMAIN, 0, SegFALL \o AmlReturn(AmlByte(5))),
      AmlMethod(SegMAIN, 0, AmlReturn(AmlAdd(One, SegFALL))),
      AmlMethod(SegMAIN, 0, AmlStore(SegFALL, AmlLocal(0)) \o AmlReturn(AmlLocal(0))),
      AmlMethod(SegMAIN, 0, AmlReturn(AmlAdd(One, SegSUB)))
        \o AmlMethod(SegSUB, 0, SegFALL \o AmlReturn(AmlByte(2))) }

\* methods that declare nodes: a Name, a buffer field, a Method, a Name in
\* the body of a Scope
Declarations ==
    { AmlName(SegFOO, AmlByte(5)),
      AmlStore(AmlBuffer(One, <<42>>), AmlLocal(0))
        \o AmlCreateByteField(AmlLocal(0), Zero, SegFOO),
      AmlMethod(SegFOO, 0, AmlReturn(AmlByte(5))),
      AmlScope(<<ROOT_CHAR, 0>>, AmlName(SegFOO, AmlByte(5))) }

Exits == {<<>>, AmlReturn(SegFOO), AmlIf(One, AmlReturn(SegFOO))}

\* callers of SUB_, the declaring method
DeclCallers ==
    { AmlMethod(SegMAIN, 0, SegSUB \o AmlReturn(Zero)),
      AmlMethod(SegMAIN, 0, SegSUB \o AmlReturn(SegFOO)),
      AmlMethod(SegMAIN, 0, SegSUB \o SegSUB \o AmlReturn(Zero)) }

\* encodings cut short or running over: a byte constant without its byte, a
\* package length without its bytes, the two-byte opcode prefix as the last
\* byte, a string without its NUL, each as the operand of a Return or as a
\* statement
Truncated == {<<BYTEPREFIX>>, <<METHOD_OP>>, <<METHOD_OP, 64>>, <<EXTOP_PREFIX>>,
              <<STRINGPREFIX, 65>>}
WellFormed == {<<EXTOP_PREFIX, REVISION_OP>>, <<STRINGPREFIX, 65, 0>>}

\* a method whose package length runs n bytes past its body
OverlongMethod(seg, body, n) ==
    <<METHOD_OP>> \o PkgLength(Len(body) + 5 + n)
    \o seg \o <<0>> \o body

\* tables that are malformed at the top level, in a method body, and a
\* method, a loop or a buffer whose package length passes the enclosing block
Malformed ==
    Truncated
    \cup {AmlMethod(SegMAIN, 0, AmlReturn(x)) : x \in Truncated}
    \cup {AmlMethod(SegMAIN, 0, x) : x \in Truncated}
    \cup {OverlongMethod(SegMAIN, AmlReturn(Zero), 1)}
    \cup {AmlMethod(SegMAIN, 0, OverlongMethod(SegFOO, AmlReturn(Zero), 1))
            \o AmlMethod(SegSUB, 0, AmlReturn(Zero))}
    \cup {AmlMethod(SegMAIN, 0, <<WHILE_OP, 3, ZERO_OP>>) \o AmlMethod(SegSUB, 0, AmlReturn(Zero))}
    \cup {AmlMethod(SegMAIN, 0, AmlReturn(<<BUFFER_OP, 4, ONE_OP>>))
            \o AmlMethod(SegSUB, 0, AmlReturn(Zero))}

\* the same literals complete
Literals ==
    {AmlMethod(SegMAIN, 0, AmlReturn(x)) : x \in WellFormed}
    \cup {AmlMethod(SegMAIN, 0, x) : x \in WellFormed}

\* tables that declare the name FOO_ twice: at the top level and in a
\* method, by Name, CreateByteField (on the buffer BUF_) and Method,
\* followed by a statement
Declarators ==
    { AmlName(SegFOO, AmlByte(5)),
      AmlCreateByteField(SegBUF, Zero, SegFOO),
      AmlMethod(SegFOO, 0, AmlReturn(AmlByte(5))) }

DeclareBUF == AmlName(SegBUF, AmlBuffer(One, <<42>>))

RedeclaredAtTop ==
    {DeclareBUF \o a \o b \o AmlMethod(SegMAIN, 0, AmlReturn(One)) : a, b \in Declarators}
RedeclaredInMethod ==
    {AmlMethod(SegMAIN, 0, DeclareBUF \o a \o b \o AmlReturn(One)) : a, b \in Declarators}
Redeclared == RedeclaredAtTop \cup RedeclaredInMethod

Call(code, entry, args) == [code |-> code, entry |-> entry, args |-> args]

\* Method(MAIN, 1) { Local0 = 0; Local1 = 0;
\*     If (++Local1 == Arg0) { ifBody } [ Else { elseBody } ]
\*     Local0 += 64; Return (Local0 + Local1) }
\* Local1 counts the evaluations of the predicate; the bodies add 16 and 32
AddToLocal0(n) == AmlStore(AmlAdd(AmlLocal(0), AmlByte(n)), AmlLocal(0))
IfBodies == {<<>>, AddToLocal0(16)}
ElseBodies == {<<>>, AddToLocal0(32)}
TableCond(hasElse, ifBody, elseBody) ==
    AmlMethod(SegMAIN, 1,
        AmlStore(Zero, AmlLocal(0)) \o AmlStore(Zero, AmlLocal(1))
        \o AmlIf(AmlLEqual(AmlIncrement(AmlLocal(1)), AmlArg(0)), ifBody)
        \o (IF hasElse THEN AmlElse(elseBody) ELSE <<>>)
        \o AddToLocal0(64)
        \o AmlReturn(AmlAdd(AmlLocal(0), AmlLocal(1))))
CondTables == {TableCond(h, i, e) : h \in BOOLEAN, i \in IfBodies, e \in ElseBodies}

\* Method(MAIN, 2) { Local0 = 7; Local1 = SUB_(Arg0);
\*     Return ((Local0 + Arg0) + (Arg1 + Local1)) }
\* Method(SUB_, 1) { Local0 = 32; Local1 = 1; Arg0 = 48; Return (Local0 + Arg0) }
\* the callee stores to the locals and to the argument its caller also uses
TableFrames ==
    AmlMethod(SegMAIN, 2,
        AmlStore(AmlByte(7), AmlLocal(0))
        \o AmlStore(SegSUB \o AmlArg(0), AmlLocal(1))
        \o AmlReturn(AmlAdd(AmlAdd(AmlLocal(0), AmlArg(0)), AmlAdd(AmlArg(1), AmlLocal(1)))))
    \o AmlMethod(SegSUB, 1,
        AmlStore(AmlByte(32), AmlLocal(0)) \o AmlStore(One, AmlLocal(1))
        \o AmlStore(AmlByte(48), AmlArg(0))
        \o AmlReturn(AmlAdd(AmlLocal(0), AmlArg(0))))

\* Method(REC_, 1) { Local0 = Arg0; Local2 = 0;
\*     If (Arg0) { Local1 = Arg0; Local1--; Local2 = REC_(Local1) }
\*     Return (Local0 + Local2) }
\* REC_(n) is n + (n - 1) + ... + 1 when every call has its own locals
SegREC == <<82, 69, 67, 95>>
TableRecursive ==
    AmlMethod(SegREC, 1,
        AmlStore(AmlArg(0), AmlLocal(0)) \o AmlStore(Zero, AmlLocal(2))
        \o AmlIf(AmlArg(0),
                 AmlStore(AmlArg(0), AmlLocal(1)) \o AmlDecrement(AmlLocal(1))
                 \o AmlStore(SegREC \o AmlLocal(1), AmlLocal(2)))
        \o AmlReturn(AmlAdd(AmlLocal(0), AmlLocal(2))))

\* Method(MAIN, 2) { Local2 = Divide(Arg0, Arg1, Local0, Local1); Return (Local2) }
\* Method(MAIN, 2) { Divide(Arg0, Arg1, Local0, Local1); Return (Divide(Local1, Arg1, Local2, Local3)) }
\* the remainder goes to the first target, the quotient to the second
DivideOfArgs == AmlDivide(AmlArg(0), AmlArg(1), AmlLocal(0), AmlLocal(1))
DivideTables ==
    {AmlMethod(SegMAIN, 2, AmlStore(DivideOfArgs, AmlLocal(2)) \o AmlReturn(AmlLocal(2))),
     AmlMethod(SegMAIN, 2,
        DivideOfArgs \o AmlReturn(AmlDivide(AmlLocal(1), AmlArg(1), AmlLocal(2), AmlLocal(3))))}
MaxDividend == 12
Divisors == {1, 3, 8}
DivideCalls ==
    {Call(t, SegMAIN, <<IntVar(U64(a)), IntVar(U64(b))>>) :
        t \in DivideTables, a \in 0..MaxDividend, b \in Divisors}

Calls ==
    {Call(TableTST, SegTST, <<IntVar(U64(n))>>) : n \in 0..MaxCount}
    \cup {Call(TableCount, SegMAIN, <<IntVar(U64(n))>>) : n \in 0..MaxCount}
    \cup UNION {{Call(TableNest(s, l), SegMAIN, <<IntVar(U64(n))>>) :
                    l \in LeavesFor(s), n \in 0..MaxCount} : s \in Shapes}
    \cup {Call(AmlMethod(SegFALL, 0, b), SegFALL, <<>>) : b \in FallBodies}
    \cup {Call(c \o AmlMethod(SegFALL, 0, b), SegMAIN, <<>>) : c \in Callers, b \in FallBodies}
    \cup {Call(AmlMethod(SegSUB, 0, d \o e), SegSUB, <<>>) : d \in Declarations, e \in Exits}
    \cup {Call(c \o AmlMethod(SegSUB, 0, d \o e), SegMAIN, <<>>) :
            c \in DeclCallers, d \in Declarations, e \in Exits}
    \cup {Call(t, SegMAIN, <<>>) : t \in Malformed \cup Literals \cup Redeclared}
    \cup {Call(t, SegMAIN, <<IntVar(U64(n))>>) : t \in CondTables, n \in 0..MaxCount}
    \cup {Call(TableFrames, SegMAIN, <<IntVar(U64(n)), IntVar(U64(64))>>) : n \in 0..MaxCount}
    \cup {Call(TableRecursive, SegREC, <<IntVar(U64(n))>>) : n \in 0..MaxCount}

(***************************************************************************)
(* The interpreter run on one table: lai_populate, then lai_eval_args on   *)
(* the entry method, the driver loop of lai_exec_run one step at a time.   *)
(***************************************************************************)
LaiState(call, phase) ==
    [ phase |-> phase, code |-> call.code, entry |-> call.entry, args |-> call.args,
      nodes |-> <<RootNode>>, heap |-> EmptyHeap,
      ctxstack |-> <<>>, blkstack |-> <<>>, stack |-> <<>>, opstack |-> <<>>,
      ret |-> "LAI_ERROR_NONE", ninv |-> 0, log |-> <<>>,
      status |-> "LAI_ERROR_NONE", result |-> NoVar ]

LaiIdle == LaiState(Call(<<>>, <<>>, <<>>), "idle")

\* lai_init_state
lai_init_state(S) ==
    [S EXCEPT !.ctxstack = <<>>, !.blkstack = <<>>, !.stack = <<>>, !.opstack = <<>>]

\* lai_finalize_state: pops every stack
RECURSIVE PopAllCtx(_)
PopAllCtx(S) == IF S.ctxstack = <<>> THEN S ELSE PopAllCtx(lai_exec_pop_ctxstack_back(S))

lai_finalize_state(S) ==
    LET T == PopAllCtx(S) IN
    lai_exec_pop_opstack([T EXCEPT !.blkstack = <<>>, !.stack = <<>>], Len(T.opstack))

Running == lai.phase \in {"populate", "eval"} /\ lai.ret = "LAI_ERROR_NONE"

\* lai_populate up to its call of lai_exec_run
Populate ==
    /\ OnlyExec
    /\ lai.phase = "start"
    /\ lai' = lai_exec_push_stack(
                lai_exec_push_blkstack(
                    lai_exec_push_ctxstack([lai EXCEPT !.phase = "populate"],
                        [code |-> 0, handle |-> 1, invocation |-> NoInvocation]),
                    0, Len(lai.code)),
                Item("LAI_POPULATE_STACKITEM"))

\* one iteration of the loop of lai_exec_run
ExecStep ==
    /\ OnlyExec
    /\ Running /\ lai.stack # <<>>
    /\ lai' = lai_exec_process(lai)

\* lai_populate after lai_exec_run returned
PopulateReturn ==
    /\ OnlyExec
    /\ lai.phase = "populate"
    /\ lai.ret \notin {"LAI_ERROR_NONE", "panic"} \/ (lai.ret = "LAI_ERROR_NONE" /\ lai.stack = <<>>)
    /\ lai' = IF lai.ret # "LAI_ERROR_NONE"
              THEN [lai EXCEPT !.phase = "failed", !.status = lai.ret]
              ELSE IF lai.ctxstack # <<>> \/ lai.opstack # <<>>
              THEN Panic(lai)
              ELSE [lai EXCEPT !.phase = "loaded"]

\* lai_eval_args on the entry up to its call of lai_exec_run
EvalArgs ==
    /\ OnlyExec
    /\ lai.phase = "loaded" /\ lai.ret = "LAI_ERROR_NONE"
    /\ LET handle == NsChild(lai.nodes, 1, lai.entry)
           node == lai.nodes[handle]
           args == [i \in 1..7 |-> IF i <= Len(lai.args) THEN lai.args[i] ELSE NoVar]
           inv == [NewInvocation(lai.ninv + 1) EXCEPT !.arg = args]
       IN  lai' =
            IF handle = 0 THEN Panic(lai)
            ELSE IF node.type # "METHOD"
            THEN [lai EXCEPT !.phase = "done", !.status = "LAI_ERROR_TYPE_MISMATCH"]
            ELSE lai_exec_push_stack(
                    lai_exec_push_blkstack(
                        lai_exec_push_ctxstack(
                            [lai EXCEPT !.phase = "eval", !.ninv = @ + 1,
                                        !.heap = RefVars(@, lai.args)],
                            [code |-> node.pointer, handle |-> handle, invocation |-> inv]),
                        0, node.size),
                    [Item("LAI_METHOD_STACKITEM") EXCEPT !.want_result = TRUE])

\* lai_eval_args after lai_exec_run returned
EvalReturn ==
    /\ OnlyExec
    /\ lai.phase = "eval"
    /\ lai.ret \notin {"LAI_ERROR_NONE", "panic"} \/ (lai.ret = "LAI_ERROR_NONE" /\ lai.stack = <<>>)
    /\ lai' =
        IF lai.ret # "LAI_ERROR_NONE"
        THEN [lai_init_state(lai_finalize_state(lai)) EXCEPT !.phase = "done", !.status = lai.ret]
        ELSE IF lai.ctxstack # <<>> \/ Len(lai.opstack) # 1 THEN Panic(lai)
        ELSE LET objectref == lai_exec_get_objectref(lai, lai_exec_get_opstack(lai, 0))
                 method_result == lai_obj_clone(objectref.h, NoVar, objectref.v)
                 T == lai_exec_pop_opstack(
                        [lai EXCEPT !.heap = lai_var_finalize(method_result.h, objectref.v)], 1)
             IN  IF "panic" \in {objectref.err, method_result.err} THEN Panic(lai)
                 ELSE [T EXCEPT !.phase = "done", !.result = method_result.v]

(***************************************************************************)
(* Stack storage (core/exec_impl.h:227-416).  Each of the four stacks is a *)
(* base array of `capacity` slots and a pointer; a reserve function grows  *)
(* the array, a push function asserts that the pointer is inside it.  The   *)
(* initial arrays are the small_* arrays of lai_state_t; their sizes       *)
(* LAI_SMALL_*_SIZE are scaled down to SmallSize.  A decoded opcode is a   *)
(* handler that reserves, pops and pushes as the corresponding case of     *)
(* lai_exec_parse or lai_exec_process does; budget is the number of        *)
(* laihost_malloc calls that succeed during the handler.                   *)
(***************************************************************************)
SmallSize == 2
MaxStackDepth == 3
MaxAllocs == 2

LAI_SMALL_CTXSTACK_SIZE == SmallSize
LAI_SMALL_BLKSTACK_SIZE == SmallSize
LAI_SMALL_STACK_SIZE == SmallSize
LAI_SMALL_OPSTACK_SIZE == SmallSize

\* a slot that was never written
Junk == "junk"

\* lai_init_state: the small arrays, the pointers -1, -1, -1 and 0
StkArray(cap, ptr) ==
    [base |-> "small", capacity |-> cap, ptr |-> ptr, items |-> [i \in 0..(cap - 1) |-> Junk]]

StkInit ==
    [ ctx |-> StkArray(LAI_SMALL_CTXSTACK_SIZE, -1),
      blk |-> StkArray(LAI_SMALL_BLKSTACK_SIZE, -1),
      stack |-> StkArray(LAI_SMALL_STACK_SIZE, -1),
      op |-> StkArray(LAI_SMALL_OPSTACK_SIZE, 0),
      budget |-> 0, err |-> FALSE, panic |-> FALSE, ret |-> "LAI_ERROR_NONE",
      handler |-> "lai_init_state" ]

\* the array grown with one item less copied than the stack holds
StkGrowShort(st, n) ==
    [st EXCEPT !.base = <<"heap", 2 * st.capacity>>,
               !.capacity = 2 * st.capacity,
               !.items = [i \in 0..(2 * st.capacity - 1) |->
                             IF i < n - 1 THEN st.items[i] ELSE Junk]]

\* laihost_malloc of a new array and memcpy of the first n items into it;
\* the new array is identified by its size
StkGrow(st, n) ==
    [st EXCEPT !.base = <<"heap", 2 * st.capacity>>,
               !.capacity = 2 * st.capacity,
               !.items = [i \in 0..(2 * st.capacity - 1) |->
                             IF i < n THEN st.items[i] ELSE Junk]]

\* the body shared by the four reserve functions: the test `full`, the
\* allocation, the copy of n items; a reserve behind one that failed is not
\* called (the || of the callers)
StkReserve(S, k, full, n) ==
    IF S.err \/ S.panic \/ ~full THEN S
    ELSE IF S.budget = 0 THEN [S EXCEPT !.err = TRUE]
    ELSE [S EXCEPT ![k] = StkGrow(@, n), !.budget = @ - 1]

lai_exec_reserve_ctxstack(S) ==
    StkReserve(S, "ctx", S.ctx.ptr + 1 = S.ctx.capacity, S.ctx.ptr + 1)
lai_exec_reserve_blkstack(S) ==
    StkReserve(S, "blk", S.blk.ptr + 1 = S.blk.capacity, S.blk.ptr + 1)
lai_exec_reserve_stack(S) ==
    StkReserve(S, "stack", S.stack.ptr + 1 = S.stack.capacity, S.stack.ptr + 1)
lai_exec_reserve_opstack(S) ==
    StkReserve(S, "op", S.op.ptr = S.op.capacity, S.op.ptr)

RECURSIVE lai_exec_reserve_opstack_n(_, _)
lai_exec_reserve_opstack_n(S, n) ==
    IF n = 0 THEN S ELSE lai_exec_reserve_opstack_n(lai_exec_reserve_opstack(S), n - 1)

\* lai_exec_push_ctxstack, lai_exec_push_blkstack, lai_exec_push_stack: the
\* pointer is incremented, the assertion is made, the slot is written
StkPush(S, k, item) ==
    IF S.panic THEN S
    ELSE IF ~(S[k].ptr + 1 < S[k].capacity) THEN [S EXCEPT ![k].ptr = @ + 1, !.panic = TRUE]
    ELSE [S EXCEPT ![k].ptr = @ + 1, ![k].items[S[k].ptr + 1] = item]

\* lai_exec_push_opstack: the assertion is made, the slot is written, the
\* pointer is incremented
StkPushOp(S, item) ==
    IF S.panic THEN S
    ELSE IF ~(S.op.ptr < S.op.capacity) THEN [S EXCEPT !.panic = TRUE]
    ELSE [S EXCEPT !.op.items[S.op.ptr] = item, !.op.ptr = @ + 1]

\* lai_exec_pop_*_back and lai_exec_pop_opstack(state, n); a slot above the
\* pointer is not read again before it is written: its content is forgotten
StkPop(S, k, n) ==
    IF S.panic THEN S
    ELSE LET top == IF k = "op" THEN S.op.ptr - 1 ELSE S[k].ptr IN
         [S EXCEPT ![k].ptr = @ - n,
                   ![k].items = [i \in DOMAIN @ |-> IF i > top - n /\ i <= top THEN Junk ELSE @[i]]]

\* the items a stack holds
StkCount(S, k) == IF k = "op" THEN S.op.ptr ELSE S[k].ptr + 1
StkItems(st, n) == [i \in 0..(n - 1) |-> st.items[i]]

\* a handler runs with b successful allocations ahead; a failed reserve
\* makes it return LAI_ERROR_OUT_OF_MEMORY before anything is pushed
StkEnter(S, b, name) == [S EXCEPT !.budget = b, !.err = FALSE, !.handler = name]
StkLeave(S) ==
    [S EXCEPT !.budget = 0, !.ret = IF S.err THEN "LAI_ERROR_OUT_OF_MEMORY" ELSE @]
StkRoom(ks) == \A k \in ks : StkCount(stk, k) < MaxStackDepth
StkReady == stk.ret = "LAI_ERROR_NONE" /\ ~stk.panic

\* the handler `name`: R is the state after its reserves, P(R) the state
\* after its pops and pushes
StkHandle(R, P) == StkLeave(IF R.err THEN R ELSE P)

\* literal, ArgN, LocalN, Debug: one operand
StkOperand ==
    /\ OnlyStack /\ StkReady /\ StkRoom({"op"})
    /\ \E b \in 0..MaxAllocs :
        LET R == lai_exec_reserve_opstack(StkEnter(stk, b, "operand")) IN
        stk' = StkHandle(R, StkPushOp(R, "object"))

\* an opcode with operands: one work item
StkOpcode ==
    /\ OnlyStack /\ StkReady /\ StkRoom({"stack"})
    /\ \E b \in 0..MaxAllocs :
        LET R == lai_exec_reserve_stack(StkEnter(stk, b, "opcode")) IN
        stk' = StkHandle(R, StkPush(R, "stack", "op"))

\* While, If, Buffer: a block and a work item
StkBlock ==
    /\ OnlyStack /\ StkReady /\ StkRoom({"blk", "stack"})
    /\ \E b \in 0..MaxAllocs :
        LET R == lai_exec_reserve_stack(
                    lai_exec_reserve_blkstack(StkEnter(stk, b, "block"))) IN
        stk' = StkHandle(R, StkPush(StkPush(R, "blk", "block"), "stack", "block"))

\* Package, VarPackage: a block, a work item and the package operand
StkPackage ==
    /\ OnlyStack /\ StkReady /\ StkRoom({"blk", "stack", "op"})
    /\ \E b \in 0..MaxAllocs :
        LET R == lai_exec_reserve_stack(
                    lai_exec_reserve_blkstack(
                        lai_exec_reserve_opstack(StkEnter(stk, b, "package")))) IN
        stk' = StkHandle(R, StkPushOp(StkPush(StkPush(R, "blk", "block"),
                                              "stack", "block"), "object"))

\* lai_populate, lai_eval_args, Scope, Device, Processor, PowerResource,
\* ThermalZone: a context, a block and a work item
StkScope ==
    /\ OnlyStack /\ StkReady /\ StkRoom({"ctx", "blk", "stack"})
    /\ \E b \in 0..MaxAllocs :
        LET R == lai_exec_reserve_stack(
                    lai_exec_reserve_blkstack(
                        lai_exec_reserve_ctxstack(StkEnter(stk, b, "scope")))) IN
        stk' = StkHandle(R, StkPush(StkPush(StkPush(R, "ctx", "scope"), "blk", "block"),
                                    "stack", "scope"))

\* a name: the reference operand, or for a method the invocation item and
\* the method operand
StkName ==
    /\ OnlyStack /\ StkReady /\ StkRoom({"stack", "op"})
    /\ \E b \in 0..MaxAllocs, invoke \in BOOLEAN :
        LET R == lai_exec_reserve_stack(
                    lai_exec_reserve_opstack(StkEnter(stk, b, "name"))) IN
        stk' = StkHandle(R, IF invoke
                            THEN StkPushOp(StkPush(R, "stack", "invoke"), "name")
                            ELSE StkPushOp(R, "name"))

\* LAI_INVOKE_STACKITEM with all arguments present: the operands and the
\* item are popped, the context, block and method item pushed
StkInvoke ==
    /\ OnlyStack /\ StkReady /\ StkRoom({"ctx", "blk"})
    /\ StkCount(stk, "stack") >= 1
    /\ stk.stack.items[stk.stack.ptr] = "invoke"
    /\ \E b \in 0..MaxAllocs, argc \in 0..1 :
        /\ StkCount(stk, "op") >= argc + 1
        /\ LET R == lai_exec_reserve_blkstack(
                        lai_exec_reserve_ctxstack(StkEnter(stk, b, "invoke"))) IN
           stk' = StkHandle(R,
                    StkPush(StkPush(StkPush(StkPop(StkPop(R, "op", argc + 1), "stack", 1),
                                            "ctx", "method"), "blk", "block"),
                            "stack", "method"))

\* BankField: a block, a work item, the region operand and the bank operand
StkBankField ==
    /\ OnlyStack /\ StkReady /\ StkRoom({"blk", "stack"})
    /\ StkCount(stk, "op") + 1 < MaxStackDepth
    /\ \E b \in 0..MaxAllocs :
        LET R == lai_exec_reserve_opstack_n(
                    lai_exec_reserve_stack(
                        lai_exec_reserve_blkstack(StkEnter(stk, b, "bankfield"))), 2) IN
        stk' = StkHandle(R, StkPushOp(StkPushOp(StkPush(StkPush(R, "blk", "block"),
                                                        "stack", "block"),
                                                "name"), "name"))

\* LAI_OP_STACKITEM with all operands present: the operands are popped, the
\* result is pushed, the item is popped
StkReduce ==
    /\ OnlyStack /\ StkReady
    /\ StkCount(stk, "stack") >= 1
    /\ stk.stack.items[stk.stack.ptr] = "op"
    /\ \E b \in 0..MaxAllocs, k \in 1..2, want_result \in BOOLEAN :
        /\ StkCount(stk, "op") >= k
        /\ LET R == lai_exec_reserve_opstack(StkEnter(stk, b, "reduce"))
               Q == StkPop(R, "op", k)
           IN  stk' = StkHandle(R, StkPop(IF want_result THEN StkPushOp(Q, "object") ELSE Q,
                                          "stack", 1))

\* the end of a block: the block and its work item are popped
StkBlockEnd ==
    /\ OnlyStack /\ StkReady
    /\ StkCount(stk, "stack") >= 1 /\ StkCount(stk, "blk") >= 1
    /\ stk.stack.items[stk.stack.ptr] = "block"
    /\ stk' = StkHandle(StkEnter(stk, 0, "block end"),
                        StkPop(StkPop(StkEnter(stk, 0, "block end"), "blk", 1), "stack", 1))

\* the end of a method or of a scope: for a method the result is pushed;
\* the block, the context and the work item are popped
StkContextEnd ==
    /\ OnlyStack /\ StkReady
    /\ StkCount(stk, "stack") >= 1 /\ StkCount(stk, "blk") >= 1 /\ StkCount(stk, "ctx") >= 1
    /\ stk.stack.items[stk.stack.ptr] \in {"scope", "method"}
    /\ StkRoom({"op"})
    /\ \E b \in 0..MaxAllocs :
        LET method == stk.stack.items[stk.stack.ptr] = "method"
            E == StkEnter(stk, b, "context end")
            R == IF method THEN lai_exec_reserve_opstack(E) ELSE E
        IN  stk' = StkHandle(R, StkPop(StkPop(StkPop(IF method THEN StkPushOp(R, "object") ELSE R,
                                                     "blk", 1), "ctx", 1), "stack", 1))

(***************************************************************************)
(* Operator reductions on plain values: the Buffer/Buffer case of          *)
(* CONCAT_OP and the BCD conversions of lai_exec_reduce_op (core/exec.c).  *)
(***************************************************************************)
MaxBufferLen == 3
BufferBytes == {1, 255}
ConcatBuffers == UNION {[1..n -> BufferBytes] : n \in 0..MaxBufferLen}

OprIdle ==
    [stage |-> "idle", buffer0 |-> <<>>, buffer1 |-> <<>>, result |-> <<>>,
     read_past |-> 0, write_past |-> 0,
     x |-> U64Zero, bcd |-> U64Zero, back |-> U64Zero, err |-> "LAI_ERROR_NONE"]

\* lai_create_buffer: size bytes, zero filled
BufferZeroed(size) == [i \in 1..size |-> 0]

\* memcpy(dest + at, src, n): the bytes of dest inside its own allocation afterwards; a byte
\* fetched from beyond the end of src is whatever the heap holds there
memcpy(dest, at, src, n) ==
    [i \in 1..Len(dest) |->
        IF i > at /\ i <= at + n
        THEN (IF i - at <= Len(src) THEN src[i - at] ELSE Junk)
        ELSE dest[i]]

\* how many bytes memcpy(dest + at, src, n) reads beyond src and writes beyond dest
MemcpyReadPast(src, n) == IF n > Len(src) THEN n - Len(src) ELSE 0
MemcpyWritePast(dest, at, n) == IF at + n > Len(dest) THEN at + n - Len(dest) ELSE 0

\* case LAI_BUFFER of CONCAT_OP with a Buffer second operand
ConcatBufferBuffer(buffer0, buffer1) ==
    LET b0size == Len(buffer0)
        b1size == Len(buffer1)
        created == BufferZeroed(b0size + b1size)
        first == memcpy(created, 0, buffer0, b0size)
        second == memcpy(first, b0size, buffer1, b0size)
    IN  [content |-> second,
         read_past |-> MemcpyReadPast(buffer1, b0size),
         write_past |-> MemcpyWritePast(first, b0size, b0size)]

\* what a copy that leaves its allocations can do: go unnoticed or fault
CopyOutcomes(r) ==
    IF r.read_past > 0 \/ r.write_past > 0 THEN {"concat", "fault"} ELSE {"concat"}

Concat ==
    /\ OnlyOperator
    /\ opr.stage = "concat-input"
    /\ \/ opr' = [opr EXCEPT !.stage = "error", !.err = "LAI_ERROR_OUT_OF_MEMORY"]
       \/ LET r == ConcatBufferBuffer(opr.buffer0, opr.buffer1) IN
          \E o \in CopyOutcomes(r) :
             opr' = [opr EXCEPT !.stage = o, !.result = r.content,
                                !.read_past = r.read_past, !.write_past = r.write_past]

\* the integer written with the given digits in the given base, most significant first
RECURSIVE FromDigits(_, _)
FromDigits(ds, base) ==
    IF ds = <<>> THEN U64Zero
    ELSE U64MulAdd(FromDigits(SubSeq(ds, 1, Len(ds) - 1), base), base, ds[Len(ds)])

MaxBcdValue == 120
BcdInputs ==
    {U64(n) : n \in 0..MaxBcdValue}
        \cup {FromDigits(ds, 10) : ds \in {<<9, 9, 9, 9, 9, 9, 9, 9, 9, 9, 9, 9, 9, 9, 9, 9>>,
                                           <<1, 2, 3, 4, 5, 6, 7, 8, 9, 0, 1, 2, 3, 4, 5, 6>>,
                                           <<1, 0, 0, 0, 0, 0, 0, 0, 0, 0, 0, 0, 0, 0, 0, 0>>,
                                           <<4, 0, 9, 6>>, <<6, 5, 5, 3, 6>>}}

\* (value >> (i * 4)) & 0xF
Nibble(value, i) == (value[(i \div 4) + 1] \div (16 ^ (i % 4))) % 16

\* the loop of FROM_BCD_OP from nibble i on
RECURSIVE FromBCDLoop(_, _, _, _)
FromBCDLoop(value, i, power_of_ten, result) ==
    IF i = 16 THEN result
    ELSE FromBCDLoop(value, i + 1, U64MulAdd(power_of_ten, 10, 0),
                     U64Add(result, U64MulAdd(power_of_ten, Nibble(value, i), 0)))

FromBCD(value) == FromBCDLoop(value, 0, U64(1), U64Zero)

\* the loop of TO_BCD_OP from iteration i on
RECURSIVE ToBCDLoop(_, _, _)
ToBCDLoop(o, i, result) ==
    IF i = 20 THEN result
    ELSE LET dm == U64DivMod(o, 10)
             shifted == U64MulAdd(result, 16, dm.r)
         IN  IF dm.q = U64Zero THEN shifted ELSE ToBCDLoop(dm.q, i + 1, shifted)

ToBCD(x) == ToBCDLoop(x, 0, U64Zero)

ReduceToBCD ==
    /\ OnlyOperator
    /\ opr.stage = "bcd-input"
    /\ opr' = [opr EXCEPT !.stage = "bcd", !.bcd = ToBCD(opr.x)]

ReduceFromBCD ==
    /\ OnlyOperator
    /\ opr.stage = "bcd"
    /\ opr' = [opr EXCEPT !.stage = "integer", !.back = FromBCD(opr.bcd)]

Init == mtx = MtxInit /\ evt = EvtInit /\ obj = ObjInit /\ cnv = CnvIdle /\ fld = FldIdle /\ hst = HstIdle /\ stk = StkInit /\ opr = OprIdle
        /\ lai \in {LaiState(c, "start") : c \in Calls}

Next == Populate \/ ExecStep \/ PopulateReturn \/ EvalArgs \/ EvalReturn

Spec == Init /\ [][Next]_vars

(***************************************************************************)
(* Specifications.                                                         *)
(***************************************************************************)
InitMutex == mtx = MtxInit /\ evt = EvtInit /\ obj = ObjInit /\ lai = LaiIdle
    /\ cnv = CnvIdle /\ fld = FldIdle /\ hst = HstIdle /\ stk = StkInit /\ opr = OprIdle

NextMutex ==
    \/ \E t \in Threads, d \in Deadlines : MutexLockCall(t, d)
    \/ \E t \in Threads : MutexLockLoop(t)
    \/ \E t \in Threads : MutexHostWait(t)
    \/ \E t \in Threads : MutexHostTimeout(t)
    \/ \E t \in Threads : MutexUnlock(t)
    \/ \E t \in Threads : MutexHostWake(t)

SpecMutex == InitMutex /\ [][NextMutex]_vars

\* a thread inside lai_mutex_lock keeps running; calling lock or unlock is
\* up to the caller, and a finite deadline need not pass
MutexProgress(t) == MutexLockLoop(t) \/ MutexHostWait(t) \/ MutexHostWake(t)

SpecMutexFair == SpecMutex /\ \A t \in Threads : WF_vars(MutexProgress(t))

\* lock and unlock calls by three threads, with every kind of deadline
NextMutexAll ==
    \/ \E t \in Contenders, d \in Deadlines : MutexLockCall(t, d)
    \/ \E t \in Contenders : MutexLockLoop(t)
    \/ \E t \in Contenders : MutexHostWait(t)
    \/ \E t \in Contenders : MutexHostTimeout(t)
    \/ \E t \in Contenders : MutexUnlock(t)
    \/ \E t \in Contenders : MutexHostWake(t)

SpecMutexAll == InitMutex /\ [][NextMutexAll]_vars

\* every lock call waits forever, any thread may call, and every holder
\* unlocks
NextMutexForever ==
    \/ \E t \in Contenders : MutexLockCall(t, "forever")
    \/ \E t \in Contenders : MutexLockLoop(t)
    \/ \E t \in Contenders : MutexHostWait(t)
    \/ \E t \in Contenders : MutexUnlock(t)
    \/ \E t \in Contenders : MutexHostWake(t)

SpecMutexForever ==
    /\ InitMutex /\ [][NextMutexForever]_vars
    /\ \A t \in Contenders : WF_vars(MutexProgress(t)) /\ WF_vars(MutexUnlock(t))

InitEvent == mtx = MtxInit /\ evt = EvtInit /\ obj = ObjInit /\ lai = LaiIdle
    /\ cnv = CnvIdle /\ fld = FldIdle /\ hst = HstIdle /\ stk = StkInit /\ opr = OprIdle

NextEvent ==
    \/ \E t \in Threads, d \in Deadlines : EventWaitCall(t, d)
    \/ \E t \in Threads : EventWaitLoop(t)
    \/ \E t \in Threads : EventHostWait(t)
    \/ \E t \in Threads : EventHostTimeout(t)
    \/ \E t \in Threads : EventSignalCall(t)
    \/ \E t \in Threads : EventSignalLoop(t)
    \/ \E t \in Threads : EventHostWake(t)
    \/ \E t \in Threads : EventResetCall(t)
    \/ \E t \in Threads : EventResetLoop(t)

SpecEvent == InitEvent /\ [][NextEvent]_vars

EventProgress(t) ==
    \/ EventWaitLoop(t) \/ EventHostWait(t) \/ EventSignalLoop(t)
    \/ EventHostWake(t) \/ EventResetLoop(t)

SpecEventFair == SpecEvent /\ \A t \in Threads : WF_vars(EventProgress(t))

\* Waits that wait forever and Signals, by three threads
NextEventForever ==
    \/ \E t \in Contenders : EventWaitCall(t, "forever")
    \/ \E t \in Contenders : EventWaitLoop(t)
    \/ \E t \in Contenders : EventHostWait(t)
    \/ \E t \in Contenders : EventSignalCall(t)
    \/ \E t \in Contenders : EventSignalLoop(t)
    \/ \E t \in Contenders : EventHostWake(t)

SpecEventForever ==
    /\ InitEvent /\ [][NextEventForever]_vars
    /\ \A t \in Contenders : WF_vars(EventProgress(t))

\* an event that has been signalled up to, or close to, the largest count
FullCounts == {LAI_EVENT_COUNT - 1, LAI_EVENT_COUNT}

InitEventFull ==
    /\ mtx = MtxInit /\ obj = ObjInit /\ lai = LaiIdle
    /\ cnv = CnvIdle /\ fld = FldIdle /\ hst = HstIdle /\ stk = StkInit /\ opr = OprIdle
    /\ \E c \in FullCounts : evt = [EvtInit EXCEPT !.val = EventWord(FALSE, c)]

SpecEventFull == InitEventFull /\ [][NextEvent]_vars

InitObject == mtx = MtxInit /\ evt = EvtInit /\ obj = ObjInit /\ lai = LaiIdle
    /\ cnv = CnvIdle /\ fld = FldIdle /\ hst = HstIdle /\ stk = StkInit /\ opr = OprIdle

NextObject ==
    \/ \E d \in Slots : ObjCreateString(d)
    \/ \E d \in Slots : ObjCreateBuffer(d)
    \/ \E d \in Slots : ObjCreatePkg(d)
    \/ \E d \in Slots : ObjCreateInteger(d)
    \/ \E d, s \in Slots : ObjAssign(d, s)
    \/ \E d \in Slots : ObjFinalize(d)
    \/ \E d, s \in Slots : ObjClone(d, s)
    \/ \E d, s \in Slots : ObjPkgStore(d, s)
    \/ \E d, s \in Slots : ObjMutateBuffer(d, s)
    \/ \E d, s \in Slots : ObjMutateString(d, s)
    \/ \E d \in Slots : ObjResize(d)

SpecObject == InitObject /\ [][NextObject]_vars

InitConv ==
    /\ mtx = MtxInit /\ evt = EvtInit /\ obj = ObjInit /\ lai = LaiIdle /\ fld = FldIdle
    /\ hst = HstIdle /\ stk = StkInit /\ opr = OprIdle
    /\ cnv \in {[CnvIdle EXCEPT !.stage = "input", !.x = x] : x \in ConvInputs}

NextConv == ConvToHexString \/ ConvToDecimalString \/ ConvToInteger

SpecConv == InitConv /\ [][NextConv]_vars

InitField ==
    /\ mtx = MtxInit /\ evt = EvtInit /\ obj = ObjInit /\ lai = LaiIdle /\ cnv = CnvIdle
    /\ hst = HstIdle /\ stk = StkInit /\ opr = OprIdle
    /\ \E f \in Fields, s \in ShiftOutcomes, m \in RegionPatterns :
         \E src \in SourcePatterns(f.fld_size) :
            fld = [FldIdle EXCEPT !.stage = "input", !.field = f, !.shl64 = s, !.mem = m,
                                  !.before = m, !.source = src]

NextField == FieldWrite \/ FieldRead

SpecField == InitField /\ [][NextField]_vars

InitWidth ==
    /\ mtx = MtxInit /\ evt = EvtInit /\ obj = ObjInit /\ lai = LaiIdle /\ cnv = CnvIdle
    /\ hst = HstIdle /\ stk = StkInit /\ opr = OprIdle
    /\ \E f \in WidthFields : fld = [FldIdle EXCEPT !.stage = "declared", !.field = f]

NextWidth == CalculateAccessWidth

SpecWidth == InitWidth /\ [][NextWidth]_vars

InitIndex ==
    /\ mtx = MtxInit /\ evt = EvtInit /\ obj = ObjInit /\ lai = LaiIdle /\ cnv = CnvIdle
    /\ hst = HstIdle /\ stk = StkInit /\ opr = OprIdle
    /\ \E F \in IndexFields, m \in RegionPatterns :
         \E src \in SourcePatterns(F.fld_size) :
            fld = [FldIdle EXCEPT !.stage = "indexfield", !.field = F, !.mem = m,
                                  !.before = m, !.source = src]

NextIndex == IndexFieldWrite \/ IndexFieldRead

SpecIndex == InitIndex /\ [][NextIndex]_vars

InitStack ==
    /\ mtx = MtxInit /\ evt = EvtInit /\ obj = ObjInit /\ lai = LaiIdle /\ cnv = CnvIdle
    /\ fld = FldIdle /\ hst = HstIdle
    /\ stk = StkInit /\ opr = OprIdle

NextStack ==
    \/ StkOperand \/ StkOpcode \/ StkBlock \/ StkPackage \/ StkScope \/ StkName
    \/ StkInvoke \/ StkBankField \/ StkReduce \/ StkBlockEnd \/ StkContextEnd

SpecStack == InitStack /\ [][NextStack]_vars

InitConcat ==
    /\ mtx = MtxInit /\ evt = EvtInit /\ obj = ObjInit /\ lai = LaiIdle /\ cnv = CnvIdle
    /\ fld = FldIdle /\ hst = HstIdle /\ stk = StkInit
    /\ \E b0 \in ConcatBuffers, b1 \in ConcatBuffers :
         opr = [OprIdle EXCEPT !.stage = "concat-input", !.buffer0 = b0, !.buffer1 = b1]

NextConcat == Concat

SpecConcat == InitConcat /\ [][NextConcat]_vars

InitBcd ==
    /\ mtx = MtxInit /\ evt = EvtInit /\ obj = ObjInit /\ lai = LaiIdle /\ cnv = CnvIdle
    /\ fld = FldIdle /\ hst = HstIdle /\ stk = StkInit
    /\ \E x \in BcdInputs : opr = [OprIdle EXCEPT !.stage = "bcd-input", !.x = x]

NextBcd == ReduceToBCD \/ ReduceFromBCD

SpecBcd == InitBcd /\ [][NextBcd]_vars

InitDivide ==
    /\ mtx = MtxInit /\ evt = EvtInit /\ obj = ObjInit /\ cnv = CnvIdle /\ fld = FldIdle
    /\ hst = HstIdle /\ stk = StkInit /\ opr = OprIdle
    /\ lai \in {LaiState(c, "start") : c \in DivideCalls}

SpecDivide == InitDivide /\ [][Next]_vars

InitHost ==
    /\ mtx = MtxInit /\ evt = EvtInit /\ obj = ObjInit /\ lai = LaiIdle /\ cnv = CnvIdle
    /\ fld = FldIdle
    /\ stk = StkInit /\ opr = OprIdle
    /\ \E h \in HostConfigs : hst = [HstIdle EXCEPT !.hooks = h]

NextHost ==
    \/ HostRead \/ HostWrite \/ HostTimer \/ HostStall \/ HostSleep
    \/ HostMutexLock \/ HostMutexUnlock

SpecHost == InitHost /\ [][NextHost]_vars

(***************************************************************************)
(* Mutex properties.                                                       *)
(***************************************************************************)
MutexInLock(t) == mtx.pc[t] \in {"loop", "wait", "blocked"}

\* the first acquisition of the word never went through the host wait
MutexFirstLockImmediate ==
    \A t \in Threads :
        (mtx.res[t] = "ok" /\ mtx.acqno[t] = 1) => mtx.hwaits[t] = 0

\* the k-th acquisition happens only after the k-1 earlier ones were unlocked
MutexNoSuccessBeforeUnlock ==
    /\ \A t \in Threads :
          (mtx.res[t] = "ok" /\ mtx.acqno[t] >= 1) => mtx.okAt[t] = mtx.acqno[t] - 1
    /\ Cardinality({t \in Threads : mtx.pc[t] = "held"}) <= 1

\* C7: on a mutex word that starts at 0 the first lock succeeds at once
\* without a host wait; no later lock returns success before the holder has
\* unlocked; and the second lock call, waiting forever, returns success once
\* the holder has unlocked (as long as no third lock call joins in).
C7_MutexFirstSecondLock ==
    /\ [](MutexFirstLockImmediate /\ MutexNoSuccessBeforeUnlock)
    /\ \A t \in Threads :
          (mtx.callno[t] = 2 /\ MutexInLock(t) /\ mtx.deadline[t] = "forever"
              /\ mtx.unlocks >= 1)
          ~> ((mtx.callno[t] = 2 /\ mtx.res[t] = "ok") \/ mtx.calls > 2)

\* the second lock call had to wait in the host and then got the mutex
C7_Witness ==
    \E t \in Threads :
        /\ mtx.callno[t] = 2 /\ mtx.calls = 2
        /\ mtx.res[t] = "ok" /\ mtx.pc[t] = "held"
        /\ mtx.hwaits[t] >= 1 /\ mtx.unlocks = 1
        /\ \E u \in Threads : u # t /\ mtx.acqno[u] = 1 /\ mtx.hwaits[u] = 0

(***************************************************************************)
(* Event properties.                                                       *)
(***************************************************************************)
EventQuiescent == \A t \in Threads : evt.pc[t] = "idle"

\* a Wait pass that finds a positive count returns success in that pass,
\* takes exactly one from the count and makes no host-wait call
EventWaitFastPath ==
    \A t \in Threads :
        (evt.pc[t] = "wloop" /\ evt.v[t] = evt.val /\ EventCount(evt.val) > 0
            /\ evt'.pc[t] # "wloop")
        => /\ evt'.pc[t] = "idle" /\ evt'.res[t] = "ok"
           /\ evt'.val = EventWord(FALSE, EventCount(evt.val) - 1)
           /\ evt'.hwaits[t] = evt.hwaits[t]

\* a Wait reaches the host wait only after it observed a count of 0
EventHostWaitOnlyOnZero ==
    \A t \in Threads :
        evt.pc[t] \in {"wwait", "wblocked"} => EventCount(evt.v[t]) = 0

\* no more Waits have succeeded than Signals were made, and what is left in
\* the count when nothing is in progress is exactly the difference
EventConservation ==
    /\ evt.wok <= evt.signals
    /\ (EventQuiescent /\ ~evt.panic) =>
          /\ ~EventWaiters(evt.val)
          /\ EventCount(evt.val) = evt.signals - evt.wok - evt.dropped

\* C8: a Signal made before any Wait lets the next Wait return success
\* without a host wait, taking one from the count; k Signals without a
\* waiter let exactly k Waits succeed that way.
C8_SignalBeforeWait ==
    /\ [][EventWaitFastPath]_vars
    /\ [](EventHostWaitOnlyOnZero /\ EventConservation)

\* two Signals, then two Waits that succeeded without a host wait, and the
\* count is back at 0
C8_Witness ==
    /\ evt.signals = 2 /\ evt.wok = 2 /\ evt.handoffs = 0 /\ evt.dropped = 0
    /\ EventQuiescent
    /\ \A t \in Threads : evt.hwaits[t] = 0
    /\ evt.val = EventWord(FALSE, 0)

\* C9 as stated: a Wait that waits forever and is the only Wait ever called
\* is, once a Signal has found it waiting, woken and returns success with the
\* count back at 0.
C9_SignalWakesWaiter ==
    \A t \in Threads :
        (evt.signalled[t] /\ evt.deadline[t] = "forever" /\ evt.wcalls = 1)
        ~> ((evt.res[t] = "ok" /\ EventCount(evt.val) = 0) \/ evt.wcalls > 1)

(***************************************************************************)
(* Object properties.                                                      *)
(***************************************************************************)
\* the step just taken is the named operation, and it did not panic
ObjStepIs(op) ==
    obj'.steps = obj.steps + 1 /\ obj'.last.op = op /\ ~obj'.panic

\* the clone of a string, buffer or package has payloads of its own, all
\* fresh and referenced once, and holds what the source held; a source that
\* is not the destination keeps its content and shares no payload with it
CloneStepOK ==
    (ObjStepIs("clone") /\ obj.var[obj'.last.s].type \in HeapTypes) =>
        LET d == obj'.last.d
            s == obj'.last.s
            src == obj.var[s]
            new == obj'.var[d]
        IN  /\ new.type = src.type
            /\ \A id \in Reach(obj'.heap, new) :
                  obj.heap[id].kind = "free" /\ obj'.heap[id].rc = 1
            /\ Content(obj'.heap, new) = Content(obj.heap, src)
            /\ d # s =>
                  /\ obj'.var[s] = src
                  /\ Content(obj'.heap, src) = Content(obj.heap, src)
                  /\ Reach(obj'.heap, new) \cap Reach(obj'.heap, src) = {}

\* a mutation made through one side of a <<clone, original>> pair leaves
\* the content of the other side as it was
MutateStepOK ==
    ObjStepIs("mutate") =>
        \A p \in obj'.twins :
            /\ obj'.last.d = p[1] =>
                  Content(obj'.heap, obj'.var[p[2]]) = Content(obj.heap, obj.var[p[2]])
            /\ obj'.last.d = p[2] =>
                  Content(obj'.heap, obj'.var[p[1]]) = Content(obj.heap, obj.var[p[1]])

\* C10: cloning a String, Buffer or Package gives the destination its own
\* payload (reference count 1) with equal content, so that a later mutation
\* of the clone leaves the original unchanged and the other way round, for
\* packages element by element; a clone onto itself keeps the content and
\* leaves the variable with a live payload.
C10_CloneIndependent == [][CloneStepOK /\ MutateStepOK]_vars

\* a package was cloned and one side then mutated: the two now differ
C10_Witness ==
    /\ obj.last.op = "mutate" /\ ~obj.panic
    /\ \E p \in obj.twins :
          /\ obj.last.d \in {p[1], p[2]}
          /\ obj.var[p[1]].type = "package" /\ obj.var[p[2]].type = "package"
          /\ Content(obj.heap, obj.var[p[1]]) # Content(obj.heap, obj.var[p[2]])

(***************************************************************************)
(* Interpreter properties.                                                 *)
(***************************************************************************)
\* the step lai_exec_run takes next works on this item
AtItem(kind) == Running /\ lai.stack # <<>> /\ Top(lai.stack).kind = kind
\* the operands above the frame of the top item
TopK == Len(lai.opstack) - Top(lai.stack).opstack_frame
\* the index of the top-most item of a kind, 0 if there is none
TopIndexOf(kind) ==
    LET c == {i \in 1..Len(lai.stack) : lai.stack[i].kind = kind} IN
    IF c = {} THEN 0 ELSE CHOOSE i \in c : \A j \in c : j <= i
\* only Condition and Loop items lie above index i, the top n items aside
NestedAbove(i, n) ==
    \A j \in (i + 1)..(Len(lai.stack) - n) :
        lai.stack[j].kind \in {"LAI_COND_STACKITEM", "LAI_LOOP_STACKITEM"}
\* the next step parses this opcode as a statement of a While or If body
AtStatement(op) ==
    /\ Running /\ lai.stack # <<>>
    /\ Top(lai.stack).kind \in {"LAI_COND_STACKITEM", "LAI_LOOP_STACKITEM"}
    /\ Top(lai.stack).state # 0
    /\ Top(lai.blkstack).pc < Top(lai.blkstack).limit
    /\ CodeAt(lai, Top(lai.ctxstack).code, Top(lai.blkstack).pc) = op
LogIdx == 1..Len(lai.log)
Finished == lai.phase = "done" /\ lai.status = "LAI_ERROR_NONE"

\* Return with its operand evaluated: the items between it and the owning
\* Method item go with their blocks, then the Method item with its block and
\* context; the value is pushed iff the Method item wants a result
ReturnStepOK ==
    LET i == TopIndexOf("LAI_METHOD_STACKITEM")
        m == Len(lai.stack) - 1 - i
        rest == Pop(lai.opstack)
    IN  (AtItem("LAI_RETURN_STACKITEM") /\ TopK = 1 /\ i > 0 /\ NestedAbove(i, 1)) =>
            /\ lai'.ret = "LAI_ERROR_NONE"
            /\ lai'.stack = SubSeq(lai.stack, 1, i - 1)
            /\ lai'.blkstack = SubSeq(lai.blkstack, 1, Len(lai.blkstack) - m - 1)
            /\ lai'.ctxstack = Pop(lai.ctxstack)
            /\ IF lai.stack[i].want_result
               THEN /\ Len(lai'.opstack) = Len(rest) + 1
                    /\ Pop(lai'.opstack) = rest
                    /\ Top(lai'.opstack).tag = "LAI_OPERAND_OBJECT"
                    /\ Content(lai'.heap, Top(lai'.opstack).object)
                         = Content(lai.heap, Top(lai.opstack).object)
               ELSE lai'.opstack = rest

\* nothing is parsed for an invocation that has returned
NoParseAfterReturn ==
    \A j \in LogIdx :
        (j < Len(lai.log) /\ lai.log[j].e = "return" /\ lai.log[Len(lai.log)].e = "parse")
            => lai.log[Len(lai.log)].inv # lai.log[j].inv

TSTResult ==
    (lai.phase = "done" /\ lai.code = TableTST) =>
        /\ lai.status = "LAI_ERROR_NONE"
        /\ lai.result = IntVar(IF lai.args[1].integer = U64(1) THEN U64(42) ELSE U64Zero)

\* C1: Return(v) at any depth of While/If bodies pops exactly the nested
\* Loop/Condition items and their blocks, then the Method item with its block
\* and context, and hands v to the caller iff it wants a result; nothing of
\* the method is parsed afterwards; TST_ gives 42 for 1 and 0 otherwise
C1_ReturnUnwinds == [][ReturnStepOK]_vars /\ [](NoParseAfterReturn /\ TSTResult)

C1_Witness ==
    /\ Finished /\ lai.result = IntVar(U64(7))
    /\ \E j \in LogIdx : lai.log[j].e = "return" /\ lai.log[j].pc >= 2

\* the body of a loop reached its limit: the pc goes back to the predicate
LoopEndStepOK ==
    (/\ AtItem("LAI_LOOP_STACKITEM") /\ Top(lai.stack).state # 0
     /\ Top(lai.blkstack).pc = Top(lai.blkstack).limit) =>
        /\ lai'.stack = [lai.stack EXCEPT ![Len(lai.stack)].state = 0]
        /\ lai'.blkstack = [lai.blkstack EXCEPT ![Len(lai.blkstack)].pc =
                                                    Top(lai.stack).loop_pred]
        /\ lai'.ctxstack = lai.ctxstack /\ lai'.opstack = lai.opstack

\* the predicate of the top loop has been evaluated to an integer
AtLoopPredicate(b) ==
    /\ AtItem("LAI_LOOP_STACKITEM") /\ Top(lai.stack).state = 0 /\ TopK = 1
    /\ Top(lai.opstack).tag = "LAI_OPERAND_OBJECT"
    /\ Top(lai.opstack).object.type = "integer"
    /\ (Top(lai.opstack).object.integer # U64Zero) = b

\* a false predicate: the Loop item and its block go, the enclosing block
\* stands behind the While package
LoopExitStepOK ==
    AtLoopPredicate(FALSE) =>
        /\ lai'.stack = Pop(lai.stack)
        /\ lai'.blkstack = Pop(lai.blkstack)
        /\ Top(lai'.blkstack).pc = Top(lai.blkstack).limit
        /\ lai'.ctxstack = lai.ctxstack /\ lai'.opstack = Pop(lai.opstack)

\* a true predicate: the loop stays and its body is entered
LoopEnterStepOK ==
    AtLoopPredicate(TRUE) =>
        /\ lai'.stack = [lai.stack EXCEPT ![Len(lai.stack)].state = 1]
        /\ lai'.blkstack = lai.blkstack
        /\ Top(lai.blkstack).pc < Top(lai.blkstack).limit
        /\ lai'.ctxstack = lai.ctxstack /\ lai'.opstack = Pop(lai.opstack)

\* the counting loop started at n: n iterations, n + 1 predicates of which
\* the last alone is false
CountResult ==
    (lai.phase = "done" /\ lai.code = TableCount) =>
        LET n == U64ToNat(lai.args[1].integer)
            preds == {j \in LogIdx : lai.log[j].e = "pred"}
            bodies == {j \in LogIdx : lai.log[j].e = "parse" /\ lai.log[j].x = DECREMENT_OP}
        IN  /\ lai.status = "LAI_ERROR_NONE" /\ lai.result = IntVar(U64(n))
            /\ Cardinality(preds) = n + 1
            /\ Cardinality(bodies) = n
            /\ \A j \in preds : lai.log[j].x = (\E k \in preds : k > j)

\* C2: a While whose predicate is true n times runs its body n times and
\* evaluates the predicate n + 1 times; at the end of the body the pc is
\* reset to the predicate, and a false predicate pops the Loop item and its
\* block and leaves the pc behind the While package
C2_WhileCounts ==
    [][LoopEndStepOK /\ LoopExitStepOK /\ LoopEnterStepOK]_vars /\ []CountResult

C2_Witness ==
    /\ Finished /\ lai.code = TableCount
    /\ lai.args[1] = IntVar(U64(3)) /\ lai.result = IntVar(U64(3))

\* the items above the nearest Loop item, that item included
LoopDepth == Len(lai.stack) - TopIndexOf("LAI_LOOP_STACKITEM") + 1
\* the statement parsed next lies in the body of a loop, under If bodies only
InLoopBody(op) ==
    /\ AtStatement(op)
    /\ TopIndexOf("LAI_LOOP_STACKITEM") > 0
    /\ NestedAbove(TopIndexOf("LAI_LOOP_STACKITEM"), 0)

\* Break: the nested Condition items, the nearest Loop item and their blocks
\* go; the enclosing block stands behind the While package; every item
\* below, an outer loop included, is left as it was
BreakStepOK ==
    InLoopBody(BREAK_OP) =>
        /\ lai'.ret = "LAI_ERROR_NONE"
        /\ lai'.stack = PopN(lai.stack, LoopDepth)
        /\ lai'.blkstack = PopN(lai.blkstack, LoopDepth)
        /\ Top(lai'.blkstack).pc = lai.blkstack[Len(lai.blkstack) - LoopDepth + 1].limit
        /\ lai'.ctxstack = lai.ctxstack /\ lai'.opstack = lai.opstack

\* what follows a Break is neither an opcode of that While package nor its
\* predicate
BreakLeavesLoop ==
    \A j \in LogIdx :
        (lai.log[j].e = "break" /\ j < Len(lai.log)) =>
            LET n == lai.log[j + 1] IN
            /\ n.e \notin {"break", "continue"}
            /\ n.e = "pred" => n.pc # lai.log[j].pc
            /\ n.e = "parse" => (n.pc < lai.log[j].pc \/ n.pc >= lai.log[j].x.limit)

\* C3: Break inside nested If bodies of a While pops the nested Condition
\* items, the nearest Loop item and their blocks; no opcode of that loop's
\* body and no predicate of it follows; the pc is behind the While package;
\* an outer While stays
C3_BreakExitsNearestLoop == [][BreakStepOK]_vars /\ []BreakLeavesLoop

\* a Break under two If bodies, after which an outer loop iterates again
C3_Witness ==
    /\ Finished
    /\ \E j, k \in LogIdx :
          /\ j < k /\ lai.log[j].e = "break" /\ lai.log[j].x.m >= 2
          /\ lai.log[k].e = "pred" /\ lai.log[k].x /\ lai.log[k].pc < lai.log[j].pc

\* Continue: the nested Condition items and their blocks go, the Loop item
\* stays and the pc of its block is at the limit
ContinueStepOK ==
    InLoopBody(CONTINUE_OP) =>
        /\ lai'.ret = "LAI_ERROR_NONE"
        /\ lai'.stack = PopN(lai.stack, LoopDepth - 1)
        /\ lai'.blkstack =
             [PopN(lai.blkstack, LoopDepth - 1) EXCEPT
                ![Len(lai.blkstack) - LoopDepth + 1].pc =
                    lai.blkstack[Len(lai.blkstack) - LoopDepth + 1].limit]
        /\ lai'.ctxstack = lai.ctxstack /\ lai'.opstack = lai.opstack

\* the first event behind a Continue that is not the parsing of the
\* predicate, 0 if there is none yet
AfterPredicate(j) ==
    LET c == {k \in LogIdx : k > j /\ ~(lai.log[k].e = "parse"
                                        /\ lai.log[k].pc >= lai.log[j].pc
                                        /\ lai.log[k].pc < lai.log[j].x.limit)}
    IN  IF c = {} THEN 0 ELSE CHOOSE k \in c : \A i \in c : k <= i

\* what follows a Continue is the parsing of the loop's predicate from its
\* first byte on, then its evaluation
ContinueRechecks ==
    \A j \in LogIdx :
        (lai.log[j].e = "continue" /\ j < Len(lai.log)) =>
            /\ lai.log[j + 1].e = "parse" /\ lai.log[j + 1].pc = lai.log[j].pc
            /\ AfterPredicate(j) # 0 =>
                  /\ lai.log[AfterPredicate(j)].e = "pred"
                  /\ lai.log[AfterPredicate(j)].pc = lai.log[j].pc

\* C4: Continue skips the rest of the iteration; the next thing done for the
\* loop is the evaluation of its predicate, on which alone it depends
\* whether the body runs again or the loop is left
C4_ContinueRechecks ==
    [][ContinueStepOK]_vars /\ []ContinueRechecks
    /\ [][AtLoopPredicate(TRUE) => Top(lai'.stack).state = 1]_vars
    /\ [][AtLoopPredicate(FALSE) => Len(lai'.stack) = Len(lai.stack) - 1]_vars

\* a Continue under an If body, after which the body runs once more and the
\* loop is then left
C4_Witness ==
    /\ Finished
    /\ \E j, k, l \in LogIdx :
          /\ j < k /\ k < l /\ lai.log[j].e = "continue" /\ lai.log[j].x.m >= 1
          /\ lai.log[k].e = "pred" /\ lai.log[k].pc = lai.log[j].pc /\ lai.log[k].x
          /\ lai.log[l].e = "pred" /\ lai.log[l].pc = lai.log[j].pc /\ ~lai.log[l].x

\* a method body at its limit: the Method item, its block and its context
\* go, and Integer 0 is pushed iff a result is wanted
ImplicitReturnStepOK ==
    (AtItem("LAI_METHOD_STACKITEM") /\ Top(lai.blkstack).pc = Top(lai.blkstack).limit) =>
        /\ lai'.ret = "LAI_ERROR_NONE"
        /\ lai'.stack = Pop(lai.stack)
        /\ lai'.blkstack = Pop(lai.blkstack)
        /\ lai'.ctxstack = Pop(lai.ctxstack)
        /\ lai'.opstack = IF Top(lai.stack).want_result
                          THEN Append(lai.opstack, ObjectOperand(IntVar(U64Zero)))
                          ELSE lai.opstack

\* C5: a method body that reaches its limit completes as Return(Integer 0)
\* in every calling context, pending operands of the caller or not
C5_ImplicitReturn == [][ImplicitReturnStepOK]_vars

\* the invocations with a frame on the context stack
ActiveInvocations ==
    {lai.ctxstack[i].invocation.id :
        i \in {j \in 1..Len(lai.ctxstack) : lai.ctxstack[j].invocation.present}}

\* C6: a node declared while an invocation executes is installed for the
\* rest of it and uninstalled once its frame completed
C6_NodesDieWithInvocation ==
    \A i \in 1..Len(lai.nodes) :
        lai.nodes[i].creator # 0 =>
            (lai.nodes[i].installed <=> lai.nodes[i].creator \in ActiveInvocations)

(***************************************************************************)
(* Reference counts (C11).                                                 *)
(***************************************************************************)
\* the places that hold a reference to payload id: caller variables
\* <<0, slot>> and elements <<package, index>> of allocated packages
Holders(id) ==
    {<<0, d>> : d \in {d \in Slots : obj.var[d].type \in HeapTypes /\ obj.var[d].ptr = id}}
    \cup
    UNION {{<<p, e>> : e \in {e \in DOMAIN obj.heap[p].elems :
                                 /\ obj.heap[p].elems[e].type \in HeapTypes
                                 /\ obj.heap[p].elems[e].ptr = id}} :
           p \in {p \in PayloadIds : obj.heap[p].kind # "free"}}

\* an allocated payload counts its holders and has at least one; a freed
\* payload has count zero and no holder
RefCountExact ==
    ~obj.panic =>
        \A id \in PayloadIds :
            /\ obj.heap[id].rc >= 0
            /\ obj.heap[id].rc = Cardinality(Holders(id))
            /\ (obj.heap[id].kind = "free") = (obj.heap[id].rc = 0)

\* releasing a variable whose payload has other holders leaves the payload
\* as it was with one reference less; releasing the last reference frees it
ReleaseStepOK ==
    (ObjStepIs("finalize") /\ obj.var[obj'.last.d].type \in HeapTypes) =>
        LET id == obj.var[obj'.last.d].ptr IN
        IF obj.heap[id].rc > 1
        THEN obj'.heap[id] = [obj.heap[id] EXCEPT !.rc = @ - 1]
        ELSE obj'.heap[id] = FreePayload

C12_HexRoundTrip ==
    cnv.stage = "hex-integer" =>
        cnv.err = "LAI_ERROR_NONE" /\ cnv.out = IntVar(cnv.x)

\* C13: ToInteger(ToDecimalString(x)) = x for every 64-bit integer x.
C13_DecimalRoundTrip ==
    cnv.stage = "decimal-integer" =>
        cnv.err = "LAI_ERROR_NONE" /\ cnv.out = IntVar(cnv.x)

\* the greatest 64-bit integer went through its twenty decimal digits and
\* came back
C13_Witness ==
    /\ cnv.stage = "decimal-integer" /\ cnv.x = U64Ones
    /\ lai_strlen(cnv.heap[cnv.str.ptr].bytes) = 20
    /\ cnv.out = IntVar(U64Ones)

(***************************************************************************)
(* Field properties (C14, C15).                                            *)
(***************************************************************************)
\* C14: the bits written to a field are the bits read back from it, for
\* every width, bit offset and access type of the field.
C14_FieldRoundTrip ==
    fld.stage = "read" =>
        \A b \in 0..(fld.field.fld_size - 1) : fld.destination[b] = fld.source[b]

\* the access units of a field: the indices of the units of the field's
\* access width that hold a bit of the field
TouchedUnits(field) ==
    (field.fld_offset \div lai_calculate_access_width(field))
    ..((field.fld_offset + field.fld_size - 1) \div lai_calculate_access_width(field))

InField(field, b) == b >= field.fld_offset /\ b < field.fld_offset + field.fld_size

\* what the update rule makes of a bit that is outside the field
RuleBit(field, old) ==
    CASE (field.fld_flags \div 32) % 16 = FIELD_PRESERVE -> old
      [] (field.fld_flags \div 32) % 16 = FIELD_WRITE_ONES -> 1
      [] (field.fld_flags \div 32) % 16 = FIELD_WRITE_ZEROES -> 0

FieldWriteStepOK ==
    (fld.stage = "input" /\ fld'.stage = "written") =>
        LET field == fld.field
            width == lai_calculate_access_width(field)
        IN  /\ \A b \in 0..(RegionBits - 1) :
                  \/ InField(field, b)
                  \/ /\ (b \div width) \in TouchedUnits(field)
                     /\ fld'.mem[b] = RuleBit(field, fld.mem[b])
                  \/ /\ (b \div width) \notin TouchedUnits(field)
                     /\ fld'.mem[b] = fld.mem[b]
            /\ fld'.written = {k * (width \div 8) : k \in TouchedUnits(field)}

\* C15: a field write changes only the bits of the field and, in the access
\* units it touches, the bits outside the field as the update rule says
\* (Preserve keeps them, WriteAsOnes sets them, WriteAsZeros clears them);
\* no other access unit is written.
C15_FieldWriteFrame == [][FieldWriteStepOK]_vars

\* a nine-bit WriteAsOnes field with byte access at bit 3 of a zeroed region
\* was written: bit 0 of the first unit is now set, the third unit was not
\* accessed
C15_Witness ==
    /\ fld.stage = "written"
    /\ fld.field.fld_size = 9 /\ fld.field.fld_offset = 3
    /\ fld.field.fld_flags = FIELD_BYTE_ACCESS + 32 * FIELD_WRITE_ONES
    /\ fld.before[0] = 0 /\ fld.mem[0] = 1
    /\ fld.mem[16] = 0 /\ fld.written = {0, 1}

(***************************************************************************)
(* Error returns of lai_populate and lai_eval_args (C16, C18, C19).        *)
(***************************************************************************)
\* lai_populate or lai_eval_args has returned an error code to its caller
ReturnedError ==
    lai.phase \in {"failed", "done"} /\ lai.status # "LAI_ERROR_NONE"

\* C16: when lai_populate or lai_eval_args returns an error, the state has
\* been reset: the context, block, work and operand stacks are empty.
C16_ErrorResetsState ==
    ReturnedError =>
        /\ lai.ctxstack = <<>> /\ lai.blkstack = <<>>
        /\ lai.stack = <<>> /\ lai.opstack = <<>>

\* C18: a malformed encoding (a literal, package length or name cut short
\* by the block limit, an unterminated string, the two-byte opcode prefix as
\* the last byte, a package length that passes the enclosing block) makes
\* lai_populate or lai_eval_args return an error; none ends in lai_panic.
C18_MalformedRecoverable ==
    lai.code \in Malformed => lai.ret # "panic"

\* C19: when a declaration fails because the name is already installed, the
\* failure is the result code of lai_populate or lai_eval_args and nothing
\* behind the failed declaration is executed: a table that declares a name
\* twice at its top level is never loaded, and the method that declares a
\* name twice never completes with success or a result.
C19_DuplicateReported ==
    /\ lai.code \in RedeclaredAtTop => lai.phase # "loaded"
    /\ (lai.code \in RedeclaredInMethod /\ lai.phase = "done") =>
            lai.status # "LAI_ERROR_NONE" /\ lai.result = NoVar

(***************************************************************************)
(* Host hook properties (C17).                                             *)
(***************************************************************************)
\* C17: an operation that depends on a hook the host does not provide ends
\* with the recoverable error LAI_ERROR_UNSUPPORTED.
C17_MissingHookUnsupported ==
    (hst.outcome # "idle" /\ hst.needs \ hst.hooks # {}) =>
        hst.outcome = "LAI_ERROR_UNSUPPORTED"

(***************************************************************************)
(* Stack discipline (C20).                                                 *)
(***************************************************************************)
\* the kinds of stack items that own a block, and those that own a context
BlockOwners ==
    {"LAI_POPULATE_STACKITEM", "LAI_METHOD_STACKITEM", "LAI_BUFFER_STACKITEM",
     "LAI_PACKAGE_STACKITEM", "LAI_VARPACKAGE_STACKITEM", "LAI_LOOP_STACKITEM",
     "LAI_COND_STACKITEM", "LAI_BANKFIELD_STACKITEM"}
ContextOwners == {"LAI_POPULATE_STACKITEM", "LAI_METHOD_STACKITEM"}

CountKinds(stack, kinds) == Cardinality({i \in 1..Len(stack) : stack[i].kind \in kinds})

C21_PcWithinLimit ==
    (Running /\ lai.stack # <<>> /\ lai.blkstack # <<>>) =>
        Top(lai.blkstack).pc <= Top(lai.blkstack).limit

(***************************************************************************)
(* Mutex contention (C22).                                                 *)
(***************************************************************************)
\* C22: when every lock call waits forever and every holder unlocks, every
\* lock call returns success.
C22_LockReturns ==
    \A t \in Contenders : (mtx.pc[t] \in {"loop", "wait", "blocked"}) ~> (mtx.pc[t] = "held")

(***************************************************************************)
(* Mutual exclusion, unlock and failure of lock (C23, C24, C25).           *)
(***************************************************************************)
MutexHolders == {t \in Contenders : mtx.pc[t] = "held"}

\* C23: at most one thread is between a successful lock and its unlock, the
\* Locked bit is set while there is one, and no assertion of lock or unlock
\* fails.
C23_MutualExclusion ==
    /\ Cardinality(MutexHolders) <= 1
    /\ MutexHolders # {} => MutexLocked(mtx.val)
    /\ ~mtx.panic

\* one thread holds the mutex, one is blocked in the host wait and the third
\* is inside lock, with Locked and Contended set
C23_Witness ==
    /\ Cardinality(MutexHolders) = 1
    /\ \E t \in Contenders : mtx.pc[t] = "blocked"
    /\ \E t \in Contenders : mtx.pc[t] = "loop"
    /\ mtx.val = LAI_MUTEX_LOCKED + LAI_MUTEX_CONTENDED

\* an unlock writes 0 and goes on to the wake exactly when Contended was set
\* in the value it replaced
UnlockWakesIffContended ==
    \A t \in Contenders :
        (mtx.pc[t] = "held" /\ mtx'.pc[t] # "held") =>
            /\ mtx'.val = 0
            /\ mtx'.pc[t] = (IF MutexContended(mtx.val) THEN "wake" ELSE "idle")

\* an unlock that makes no wake call leaves no thread blocked in the host
\* wait, other than those that a wake call already under way will resume
UnlockNeverSkipsWaiter ==
    \A t \in Contenders :
        (mtx.pc[t] = "held" /\ mtx'.pc[t] = "idle") =>
            Cardinality({u \in Contenders : mtx.pc[u] = "blocked"})
                <= Cardinality({u \in Contenders : mtx.pc[u] = "wake"})

\* C24: unlock clears the word in one step and wakes once exactly when
\* Contended was set; no unlock skips the wake while a thread is blocked in
\* the host wait.
C24_UnlockWakes == [][UnlockWakesIffContended /\ UnlockNeverSkipsWaiter]_vars

\* a lock call fails in this step
LockFails(t) == mtx.res[t] # "timeout" /\ mtx'.res[t] = "timeout"

\* lock fails only out of the host wait, when the deadline has expired; the
\* caller then holds nothing and the word and the other threads are as before
LockFailsOnExpiry ==
    \A t \in Contenders :
        LockFails(t) =>
            /\ \/ mtx.pc[t] = "blocked" /\ mtx.deadline[t] = "finite"
               \/ /\ mtx.pc[t] = "wait" /\ mtx.deadline[t] = "nowait"
                  /\ mtx.val = LAI_MUTEX_LOCKED + LAI_MUTEX_CONTENDED
            /\ mtx'.pc[t] = "idle"
            /\ mtx'.val = mtx.val
            /\ \A u \in Contenders \ {t} : mtx'.pc[u] = mtx.pc[u]

\* C25: lock returns failure only when the host wait reports the deadline
\* expired; the caller does not hold the mutex, the holder is unaffected,
\* and Acquire yields 1 for a failed and 0 for a successful lock.
C25_LockFailure ==
    /\ [][LockFailsOnExpiry]_vars
    /\ [](\A t \in Contenders :
            /\ mtx.res[t] = "timeout" => mtx.pc[t] = "idle" /\ AcquireResult(mtx.res[t]) = 1
            /\ mtx.pc[t] = "held" => mtx.res[t] = "ok" /\ AcquireResult(mtx.res[t]) = 0)

\* a lock that does not wait has failed while another thread holds the mutex
C25_Witness ==
    \E t, u \in Contenders :
        /\ mtx.res[t] = "timeout" /\ mtx.deadline[t] = "nowait" /\ mtx.pc[t] = "idle"
        /\ mtx.pc[u] = "held" /\ mtx.res[u] = "ok"
        /\ mtx.val = LAI_MUTEX_LOCKED + LAI_MUTEX_CONTENDED

(***************************************************************************)
(* Event contention, saturation and word invariant (C26, C27, C28).        *)
(***************************************************************************)
EventInWait(t) == evt.pc[t] \in {"wloop", "wwait", "wblocked"}

\* C26: with two or more threads inside a Wait that waits forever, a Wait
\* does not stay blocked or keep waiting while the count is positive: it
\* returns success, or other Waits take the count down to 0.
C26_NoSignalLost ==
    \A t \in Contenders :
        (/\ EventInWait(t) /\ EventCount(evt.val) > 0
         /\ Cardinality({u \in Contenders : EventInWait(u)}) >= 2)
        ~> (evt.res[t] = "ok" \/ EventCount(evt.val) = 0)

\* a Signal pass that finds the count at its maximum and no waiter
SignalAtMaximum(t) ==
    /\ evt.pc[t] = "sloop" /\ evt.v[t] = evt.val
    /\ ~EventWaiters(evt.val) /\ EventCount(evt.val) = LAI_EVENT_COUNT
    /\ \A u \in Contenders \ {t} : evt'.pc[u] = evt.pc[u]
    /\ evt' # evt

\* C27: a Signal on an event without waiter whose count is at the maximum
\* returns and leaves the word as it is.
C27_CountSaturates ==
    [][\A t \in Contenders :
          SignalAtMaximum(t) =>
              /\ ~evt'.panic
              /\ evt'.val = evt.val
              /\ evt'.pc[t] = "idle"]_vars

\* a Reset pass that sees the Waiters bit leaves the word alone
ResetWithWaitersIsNoOp ==
    \A t \in Contenders :
        (evt.pc[t] = "rloop" /\ EventWaiters(evt.v[t]) /\ evt'.pc[t] # "rloop") =>
            evt'.val = evt.val /\ evt'.pc[t] = "idle"

\* C28: the Waiters bit and a nonzero count are never set together, a Reset
\* that sees Waiters changes nothing, and no assertion of Wait, Signal or
\* Reset fails.
C28_WaitersExcludeCount ==
    /\ [](~(EventWaiters(evt.val) /\ EventCount(evt.val) # 0) /\ ~evt.panic)
    /\ [][ResetWithWaitersIsNoOp]_vars

\* a Reset has returned after seeing the Waiters bit, which is still set,
\* after a Signal had been handed to a waiter before
C28_Witness ==
    /\ EventWaiters(evt.val) /\ evt.handoffs >= 1
    /\ \E t \in Threads : evt.pc[t] = "rloop" /\ EventWaiters(evt.v[t])

(***************************************************************************)
(* If and Else (C29).                                                      *)
(***************************************************************************)
\* what MAIN of TableCond returns when the predicate is evaluated once, one
\* body at most is executed, and execution goes on behind the If and Else
CondExpected(hasElse, ifBody, elseBody, arg) ==
    64 + 1 + (IF arg = 1 THEN (IF ifBody = <<>> THEN 0 ELSE 16)
              ELSE IF hasElse /\ elseBody # <<>> THEN 32 ELSE 0)

\* C29: the predicate of an If is evaluated once, then the If body runs
\* when it is nonzero, the Else body when it is zero and there is an Else,
\* nothing otherwise, and execution continues behind the If and the Else.
C29_IfElse ==
    \A h \in BOOLEAN, i \in IfBodies, e \in ElseBodies :
        (lai.code = TableCond(h, i, e) /\ lai.phase = "done") =>
            /\ lai.status = "LAI_ERROR_NONE"
            /\ \E n \in 0..MaxCount :
                  /\ lai.args = <<IntVar(U64(n))>>
                  /\ lai.result = IntVar(U64(CondExpected(h, i, e, n)))

\* the predicate was zero and the Else body ran
C29_Witness ==
    /\ lai.code = TableCond(TRUE, AddToLocal0(16), AddToLocal0(32))
    /\ lai.phase = "done" /\ lai.args = <<IntVar(U64(0))>>
    /\ lai.result = IntVar(U64(97))

(***************************************************************************)
(* Creation list of an invocation (C30).                                   *)
(***************************************************************************)
\* the invocation of the innermost method on the context stack
InnermostInvocation ==
    LET js == {j \in 1..Len(lai.ctxstack) : lai.ctxstack[j].invocation.present}
    IN  lai.ctxstack[CHOOSE j \in js : \A k \in js : k <= j].invocation.id

\* node handle is on the creation list of invocation id in state S
OnCreationList(S, id, handle) ==
    \E j \in 1..Len(S.ctxstack) :
        /\ S.ctxstack[j].invocation.present /\ S.ctxstack[j].invocation.id = id
        /\ \E k \in 1..Len(S.ctxstack[j].invocation.per_method_list) :
              S.ctxstack[j].invocation.per_method_list[k] = handle

\* C30: a node installed while a method invocation is active, also inside
\* the body of a Scope the method executes, is put on the creation list of
\* that invocation.
C30_CreatedNodesRecorded ==
    [][(Running /\ ActiveInvocations # {}) =>
          \A i \in (Len(lai.nodes) + 1)..Len(lai'.nodes) :
              lai'.nodes[i].installed => OnCreationList(lai', InnermostInvocation, i)]_vars

\* C31: after an evaluation was aborted by a recoverable error and the state
\* was reset, no node declared by one of its invocations is still installed
\* in the namespace.
C31_AbortRemovesNodes ==
    (lai.phase = "done" /\ lai.status # "LAI_ERROR_NONE") =>
        \A i \in 1..Len(lai.nodes) :
            lai.nodes[i].creator # 0 => ~lai.nodes[i].installed

\* The values the caller hands to a new invocation: the arguments of
\* lai_eval_args when no invocation is active, the operands behind the method
\* name otherwise.
CallerValue(S, argc, i) ==
    IF S.ctxstack = <<>>
    THEN (IF i <= Len(S.args) THEN S.args[i] ELSE NoVar)
    ELSE S.opstack[Len(S.opstack) - argc + i].object

FreshFrame(S, T) ==
    LET ctxitem == Top(T.ctxstack)
        inv == ctxitem.invocation
        argc == S.nodes[ctxitem.handle].method_flags % 8
    IN  /\ \A i \in 1..8 : inv.local[i] = NoVar
        /\ \A i \in 1..7 : inv.arg[i] = IF i <= argc THEN CallerValue(S, argc, i) ELSE NoVar

\* the locals and arguments of the j-th invocation from the bottom
FrameOf(S, j) ==
    [arg |-> S.ctxstack[j].invocation.arg, local |-> S.ctxstack[j].invocation.local]

RunFinished == Running /\ lai.stack = <<>>

\* C35: when the driver loop finishes without error the context, block and
\* work stacks are empty and the operand stack holds nothing after a populate
\* and exactly the result after an evaluation.
C35_StacksBalanced ==
    RunFinished =>
        /\ lai.ctxstack = <<>> /\ lai.blkstack = <<>>
        /\ Len(lai.opstack) = IF lai.phase = "populate" THEN 0 ELSE 1
        /\ lai.phase = "eval" => lai.opstack[1].tag = "LAI_OPERAND_OBJECT"

C35_Witness ==
    /\ RunFinished /\ lai.phase = "eval" /\ lai.code = TableRecursive
    /\ Len(lai.opstack) = 1 /\ lai.opstack[1].object = IntVar(U64(6))

\* the least power of two that is at least n, for n up to 2^9
Pow2s == {1, 2, 4, 8, 16, 32, 64, 128, 256, 512}
NextPow2(n) == CHOOSE p \in Pow2s : p >= n /\ \A q \in Pow2s : q >= n => p <= q
Clamp(x, lo, hi) == IF x < lo THEN lo ELSE IF x > hi THEN hi ELSE x

\* C36: an AnyAcc field is accessed with its bit length rounded up to a power
\* of two and clamped to 8..64 in SystemMemory and to 8..32 in every other
\* address space; Byte, Word, Dword and Qword access use 8, 16, 32 and 64.
C36_AccessWidth ==
    fld.stage = "width" =>
        LET f == fld.field
            a == f.fld_flags % 16
        IN  fld.access_size =
                CASE a = FIELD_ANY_ACCESS ->
                        Clamp(NextPow2(f.fld_size), 8,
                              IF f.op_address_space = "memory" THEN 64 ELSE 32)
                  [] a = FIELD_BYTE_ACCESS -> 8
                  [] a = FIELD_WORD_ACCESS -> 16
                  [] a = FIELD_DWORD_ACCESS -> 32
                  [] a = FIELD_QWORD_ACCESS -> 64

C36_Witness ==
    /\ fld.stage = "width" /\ fld.field.fld_flags % 16 = FIELD_ANY_ACCESS
    /\ fld.field.op_address_space = "io" /\ fld.field.fld_size = 33
    /\ fld.access_size = 32

\* C33: no push on the context, block, work or operand stack fails its
\* capacity assertion, whatever is decoded at whatever depth, BankField with
\* its two operands behind one reservation included.
C33_PushWithinCapacity == ~stk.panic

StkKinds == {"ctx", "blk", "stack", "op"}
StkFull(S, k) == StkCount(S, k) = S[k].capacity
StkReserveOf(S, k) ==
    CASE k = "ctx" -> lai_exec_reserve_ctxstack(S)
      [] k = "blk" -> lai_exec_reserve_blkstack(S)
      [] k = "stack" -> lai_exec_reserve_stack(S)
      [] k = "op" -> lai_exec_reserve_opstack(S)

\* a reserve that has to grow stack k of state S and can allocate
ReserveGrows(S, k) ==
    LET G == StkReserveOf(StkEnter(S, 1, "reserve"), k) IN
    /\ ~G.err
    /\ G[k].capacity = 2 * S[k].capacity
    /\ G[k].ptr = S[k].ptr
    /\ G[k].base # S[k].base
    /\ StkItems(G[k], StkCount(S, k)) = StkItems(S[k], StkCount(S, k))
    /\ \A o \in StkKinds \ {k} : G[o] = S[o]

\* a reserve that has to grow stack k of state S and cannot allocate
ReserveRefuses(S, k) ==
    LET F == StkReserveOf(StkEnter(S, 0, "reserve"), k) IN
    /\ F.err
    /\ \A o \in StkKinds : F[o] = S[o]

\* stack k after the reserves of a handler that started in S
GrownOnly(S, T, k) ==
    \/ T[k] = S[k]
    \/ /\ StkFull(S, k) /\ T[k].capacity = 2 * S[k].capacity /\ T[k].ptr = S[k].ptr
       /\ StkItems(T[k], StkCount(S, k)) = StkItems(S[k], StkCount(S, k))

\* C34: a reserve that has to grow a stack doubles the capacity and keeps
\* the items, their order and the pointer; when the allocation fails the
\* reserve reports the failure and leaves base, capacity, pointer and
\* contents as they were, and the handler returns LAI_ERROR_OUT_OF_MEMORY
\* without a push or a pop.
C34_ReserveGrowth ==
    /\ [](\A k \in StkKinds :
            (StkReady /\ StkFull(stk, k)) => (ReserveGrows(stk, k) /\ ReserveRefuses(stk, k)))
    /\ [](stk.err <=> stk.ret = "LAI_ERROR_OUT_OF_MEMORY")
    /\ [][stk'.err => \A k \in StkKinds : GrownOnly(stk, stk', k)]_vars

C34_Witness ==
    /\ stk.ret = "LAI_ERROR_OUT_OF_MEMORY" /\ stk.handler = "scope"
    /\ stk.ctx.capacity = 2 * SmallSize /\ stk.ctx.ptr = SmallSize - 1
    /\ stk.blk.capacity = SmallSize /\ stk.blk.ptr = SmallSize - 1
    /\ stk.op.capacity = 2 * SmallSize /\ stk.op.ptr = SmallSize + 1
    /\ stk.op.items[0] # stk.op.items[1]

\* the access width of an IndexField whose width computation did not fault
IndexWidth(F) ==
    CASE F.fld_flags % 16 = FIELD_BYTE_ACCESS -> 8
      [] F.fld_flags % 16 = FIELD_WORD_ACCESS -> 16
      [] F.fld_flags % 16 = FIELD_DWORD_ACCESS -> 32
      [] F.fld_flags % 16 = FIELD_QWORD_ACCESS -> 64
      [] F.fld_flags % 16 = FIELD_ANY_ACCESS ->
            Clamp(NextPow2(F.fld_size), 8, IF F.op_address_space = "memory" THEN 64 ELSE 32)

\* the access units the field covers and the byte offset of unit k
IndexUnits(F) == ((F.fld_offset % IndexWidth(F)) + F.fld_size + IndexWidth(F) - 1) \div IndexWidth(F)
IndexUnitOffset(F, k) == ((F.fld_offset \div IndexWidth(F)) + k) * (IndexWidth(F) \div 8)

\* the register accesses of unit k: its offset goes to the index register
\* before every access of the data register
IndexUnitLog(F, k, ops) ==
    LET off == IndexUnitOffset(F, k) IN
    [i \in 1..(2 * Len(ops)) |->
        IF i % 2 = 1 THEN [reg |-> "index", op |-> "write", index |-> off]
        ELSE [reg |-> "data", op |-> ops[i \div 2], index |-> off]]

RECURSIVE IndexLog(_, _, _)
IndexLog(F, k, ops) ==
    IF k = 0 THEN <<>> ELSE IndexLog(F, k - 1, ops) \o IndexUnitLog(F, k - 1, ops)

\* C37: every access unit of an IndexField writes its offset to the index
\* register and then accesses the data register, with no other index write
\* in between; a write under Preserve does index-write, data-read,
\* index-write, data-write for every unit.
C37_IndexBeforeData ==
    /\ fld.stage = "index-read" => fld.log = IndexLog(fld.field, IndexUnits(fld.field), <<"read">>)
    /\ fld.stage = "index-written" =>
          fld.log = IndexLog(fld.field, IndexUnits(fld.field),
                             IF (fld.field.fld_flags \div 32) % 16 = FIELD_PRESERVE
                             THEN <<"read", "write">> ELSE <<"write">>)

C37_Witness ==
    /\ fld.stage = "index-written"
    /\ (fld.field.fld_flags \div 32) % 16 = FIELD_PRESERVE
    /\ fld.field.fld_flags % 16 = FIELD_BYTE_ACCESS
    /\ fld.field.fld_offset = 13 /\ fld.field.fld_size = 9
    /\ Len(fld.log) = 8
    /\ [i \in 1..8 |-> fld.log[i].index] = <<1, 1, 1, 1, 2, 2, 2, 2>>
    /\ [i \in 1..4 |-> fld.log[i].op] = <<"write", "read", "write", "write">>

(***************************************************************************)
(* Concat of two buffers.                                                  *)
(***************************************************************************)
\* C38: Concat of two Buffer operands of lengths a and b yields a Buffer of length a+b whose
\* first a bytes are the first operand and whose last b bytes are the second operand, for all
\* a and b, and no byte outside the second operand is read
C38_ConcatBuffers ==
    opr.stage \in {"concat", "fault"} =>
        LET a == Len(opr.buffer0)
            b == Len(opr.buffer1)
        IN  /\ opr.stage = "concat"
            /\ Len(opr.result) = a + b
            /\ SubSeq(opr.result, 1, a) = opr.buffer0
            /\ SubSeq(opr.result, a + 1, a + b) = opr.buffer1
            /\ opr.read_past = 0

(***************************************************************************)
(* BCD conversions.                                                        *)
(***************************************************************************)
\* decimal digit i of x, least significant digit first
DecimalDigit(x, i) ==
    LET ds == Digits(x, 10) IN IF i < Len(ds) THEN ds[Len(ds) - i] ELSE 0

\* C40: ToBCD and FromBCD are inverse on valid inputs: for every integer x below 10^16,
\* ToBCD(x) places decimal digit i of x (least significant digit first) in nibble i of the
\* result, and FromBCD(ToBCD(x)) is x
C40_BcdRoundTrip ==
    /\ opr.stage \in {"bcd", "integer"} =>
            \A i \in 0..15 : Nibble(opr.bcd, i) = DecimalDigit(opr.x, i)
    /\ opr.stage = "integer" => opr.back = opr.x

(***************************************************************************)
(* Divide.                                                                 *)
(***************************************************************************)
\* a Divide with its four operands on the operand stack is about to be reduced
DivideReady ==
    /\ Running /\ lai.stack # <<>>
    /\ Top(lai.stack).kind = "LAI_OP_STACKITEM"
    /\ Top(lai.stack).op_opcode = DIVIDE_OP
    /\ Len(lai.opstack) - Top(lai.stack).opstack_frame = 4

\* the integer an operand of the Divide on top evaluates to
DivideOperand(i) ==
    U64ToNat(lai_exec_get_integer(lai, lai.opstack[Top(lai.stack).opstack_frame + i]).v.integer)

\* the variable a target operand of the Divide on top holds after the step
DivideTarget(i) ==
    lai_operand_load(lai', lai.opstack[Top(lai.stack).opstack_frame + i]).v

\* C39: Divide(a, b, Remainder, Quotient) with b # 0 stores a mod b in the remainder target
\* and a div b in the quotient target, and the value of the Divide expression, when the
\* enclosing expression wants it, is the quotient
C39_DivideResult ==
    [][(DivideReady /\ DivideOperand(2) # 0) =>
            LET a == DivideOperand(1)
                b == DivideOperand(2)
            IN  /\ DivideTarget(3) = IntVar(U64(a % b))
                /\ DivideTarget(4) = IntVar(U64(a \div b))
                /\ Top(lai.stack).want_result =>
                        Top(lai'.opstack) = ObjectOperand(IntVar(U64(a \div b)))]_vars

====
